---- MODULE Spec2Model ----
(***************************************************************************)
(* Model of the Tempo aggregation pipeline (src/src/core/aggregator.py),    *)
(* categorizer (categorizer.py) and report generator (reports.py).         *)
(* A session is a Python dict: a function from the keys it holds to their  *)
(* values; a key the dict lacks is outside its DOMAIN.                     *)
(***************************************************************************)
EXTENDS Integers, Sequences, FiniteSets, TLC

VARIABLES sessions,       \* the list of session dicts handed to the aggregator
          gap_threshold,  \* DataAggregator.gap_threshold
          op,             \* the method that produced result ("init": none yet)
          result,         \* the value the last method returned
          error,          \* the exception the last method raised ("none": it returned)
          min_duration,   \* DataAggregator.min_duration
          now,            \* the clock, time.time()
          arg,            \* the other arguments of the last call
          custom_rules,   \* AppCategorizer.custom_rules
          store,          \* the rows of the session store, Database
          current_session,    \* SessionManager.current_session: None or the
                              \* position of the session in manager_sessions
          manager_sessions    \* SessionManager.sessions

vars == <<sessions, gap_threshold, op, result, error, min_duration, now, arg,
          custom_rules, store, current_session, manager_sessions>>

\* the state of the objects a specification does not exercise
aggregatorVars == <<sessions, gap_threshold, min_duration>>
otherVars == <<custom_rules, store>>
managerVars == <<current_session, manager_sessions>>

----------------------------------------------------------------------------
(* Bounds and program constants *)

MaxLen == 3
MaxDaily == 2

GapDefault == 10
MinDurationDefault == 30
HOUR == 3600

\* Python's None in a numeric field (timestamps and durations are >= 0)
None == -1

Apps == {"firefox", "vscode"}
MergeTimes == {0, 5, 15}
HourTimes == {1800, 3600, 9000}
GapChoices == {GapDefault}
Durations == {30, 60}
Categories == {"productive", "neutral", "distracting", "other"}

----------------------------------------------------------------------------
(* Python dict helpers *)

Get(d, k, default) == IF k \in DOMAIN d THEN d[k] ELSE default

Put(d, k, v) == [x \in (DOMAIN d) \cup {k} |-> IF x = k THEN v ELSE d[x]]

SeqsUpTo(S, n) == UNION {[1..k -> S] : k \in 0..n}

----------------------------------------------------------------------------
(* merge_consecutive_sessions *)

\* mutant: the sort in descending order of start_time
KeyLE_Descending(a, b) == Get(a, "start_time", 0) >= Get(b, "start_time", 0)

\* the sort key of line 42 compared: a goes before-or-with b
KeyLE(a, b) == Get(a, "start_time", 0) <= Get(b, "start_time", 0)

RECURSIVE InsertSorted(_, _)
InsertSorted(s, sorted) ==
    IF sorted = <<>> THEN <<s>>
    ELSE IF KeyLE(Head(sorted), s)
         THEN <<Head(sorted)>> \o InsertSorted(s, Tail(sorted))
         ELSE <<s>> \o sorted

\* mutant: the sort left out
sorted_sessions_Unsorted(L) == L

\* sorted(sessions, key=start_time): a stable sort
RECURSIVE sorted_sessions(_)
sorted_sessions(L) ==
    IF L = <<>> THEN <<>>
    ELSE InsertSorted(L[Len(L)], sorted_sessions(SubSeq(L, 1, Len(L) - 1)))

\* mutant: a strict comparison with the threshold
ShouldMerge_Strict(current, session, gap) ==
    /\ session["app_name"] = current["app_name"]
    /\ Get(session, "start_time", 0) - Get(current, "end_time", 0) < gap

\* the elif condition of lines 51-54
ShouldMerge(current, session, gap) ==
    /\ session["app_name"] = current["app_name"]
    /\ Get(session, "start_time", 0) - Get(current, "end_time", 0) <= gap

\* mutant: a session without end_time merged in with end 0, not its start_time
MergeInto_NoFallback(current, session) ==
    LET e == Get(session, "end_time", 0)
    IN  Put(Put(current, "end_time", e), "duration", e - current["start_time"])

\* lines 56-57
MergeInto(current, session) ==
    LET e == Get(session, "end_time", Get(session, "start_time", 0))
    IN  Put(Put(current, "end_time", e), "duration", e - current["start_time"])

\* mutant: a missing end_time filled in with start_time before appending
Flush_FillEnd(current) ==
    LET c == IF "end_time" \notin DOMAIN current /\ "start_time" \in DOMAIN current
             THEN Put(current, "end_time", current["start_time"])
             ELSE current
    IN  IF "duration" \notin DOMAIN c /\ "start_time" \in DOMAIN c /\ "end_time" \in DOMAIN c
        THEN Put(c, "duration", c["end_time"] - c["start_time"])
        ELSE c

\* lines 60-61 and 67-68: fill in a missing duration before appending
Flush(current) ==
    IF /\ "duration" \notin DOMAIN current
       /\ "start_time" \in DOMAIN current
       /\ "end_time" \in DOMAIN current
    THEN Put(current, "duration", current["end_time"] - current["start_time"])
    ELSE current

\* the for loop of lines 47-63 and the final append of lines 66-69
RECURSIVE MergeLoop(_, _, _, _)
MergeLoop(rest, current, acc, gap) ==
    IF rest = <<>> THEN Append(acc, Flush(current))
    ELSE LET session == Head(rest)
         IN  IF ShouldMerge(current, session, gap)
             THEN MergeLoop(Tail(rest), MergeInto(current, session), acc, gap)
             ELSE MergeLoop(Tail(rest), session, Append(acc, Flush(current)), gap)

merge_consecutive_sessions(L, gap) ==
    IF L = <<>> THEN <<>>
    ELSE LET S == sorted_sessions(L)
         IN  MergeLoop(Tail(S), Head(S), <<>>, gap)

\* lines 61 and 68 subtract from an end_time that is None: TypeError
FlushRaises(current) ==
    /\ "duration" \notin DOMAIN current
    /\ "start_time" \in DOMAIN current
    /\ "end_time" \in DOMAIN current
    /\ current["end_time"] = None

\* the scan of lines 47-69 raises TypeError: line 53 subtracts a None
\* current end_time (only evaluated for the same app_name), line 57 subtracts
\* from the None end_time it has just taken from the session
RECURSIVE MergeLoopRaises(_, _, _)
MergeLoopRaises(rest, current, gap) ==
    IF rest = <<>> THEN FlushRaises(current)
    ELSE LET session == Head(rest)
         IN  IF /\ session["app_name"] = current["app_name"]
                /\ Get(current, "end_time", 0) = None
             THEN TRUE
             ELSE IF ShouldMerge(current, session, gap)
             THEN \/ Get(session, "end_time", 0) = None
                  \/ MergeLoopRaises(Tail(rest), MergeInto(current, session), gap)
             ELSE \/ FlushRaises(current)
                  \/ MergeLoopRaises(Tail(rest), session, gap)

MergeRaises(L, gap) ==
    /\ L # <<>>
    /\ LET S == sorted_sessions(L) IN MergeLoopRaises(Tail(S), Head(S), gap)

----------------------------------------------------------------------------
(* create_hourly_summary *)

\* int(t // 3600) * 3600, lines 98-99
HourOf(t) == (t \div HOUR) * HOUR

\* the defaultdict factory of lines 86-90; apps holds {name, duration} entries
\* in the insertion order of the dict that lines 139-142 turn into a list
EmptyBucket == [apps |-> <<>>, total_duration |-> 0, hour_start |-> 0]

\* apps[app_name] = apps.get(app_name, 0) + duration
AppsAdd(apps, app_name, duration) ==
    IF \E i \in 1..Len(apps) : apps[i]["name"] = app_name
    THEN [i \in 1..Len(apps) |->
            IF apps[i]["name"] = app_name
            THEN [name |-> app_name, duration |-> apps[i]["duration"] + duration]
            ELSE apps[i]]
    ELSE Append(apps, [name |-> app_name, duration |-> duration])

\* the three statements of lines 104-107 (and 112-115, 120-123, 129-132)
AddToHour(hourly_data, hour, app_name, duration) ==
    LET old == IF hour \in DOMAIN hourly_data THEN hourly_data[hour] ELSE EmptyBucket
        new == [apps |-> AppsAdd(old["apps"], app_name, duration),
                total_duration |-> old["total_duration"] + duration,
                hour_start |-> hour]
    IN  [h \in (DOMAIN hourly_data) \cup {hour} |->
            IF h = hour THEN new ELSE hourly_data[h]]

\* mutant: the part of the first hour before the session, not after its start
FirstHourDuration_Before(start_hour, start_time) == start_time - start_hour

\* line 111
FirstHourDuration(start_hour, start_time) == (start_hour + HOUR) - start_time

\* mutant: the loop also runs for the last hour
InMiddle_Inclusive(current_hour, end_hour) == current_hour <= end_hour

\* the loop condition of line 119
InMiddle(current_hour, end_hour) == current_hour < end_hour

\* the while loop of lines 118-124
RECURSIVE MiddleHours(_, _, _, _)
MiddleHours(hourly_data, current_hour, end_hour, app_name) ==
    IF InMiddle(current_hour, end_hour)
    THEN MiddleHours(AddToHour(hourly_data, current_hour, app_name, HOUR),
                     current_hour + HOUR, end_hour, app_name)
    ELSE hourly_data

\* line 127
LastHourDuration(end_time, end_hour) == end_time - end_hour

\* the body of the for loop, lines 93-132
AddSession(hourly_data, session) ==
    LET start_time == Get(session, "start_time", 0)
        end_time == Get(session, "end_time", start_time)
        app_name == Get(session, "app_name", "unknown")
        start_hour == HourOf(start_time)
        end_hour == HourOf(end_time)
    IN  IF start_hour = end_hour
        THEN AddToHour(hourly_data, start_hour, app_name, end_time - start_time)
        ELSE LET first == AddToHour(hourly_data, start_hour, app_name,
                                    FirstHourDuration(start_hour, start_time))
                 middle == MiddleHours(first, start_hour + HOUR, end_hour, app_name)
                 last_hour_duration == LastHourDuration(end_time, end_hour)
             IN  IF last_hour_duration > 0
                 THEN AddToHour(middle, end_hour, app_name, last_hour_duration)
                 ELSE middle

RECURSIVE HourlyLoop(_, _)
HourlyLoop(hourly_data, rest) ==
    IF rest = <<>> THEN hourly_data
    ELSE HourlyLoop(AddSession(hourly_data, Head(rest)), Tail(rest))

\* lines 135-143: the buckets in ascending order of their key
RECURSIVE BucketsInOrder(_, _)
BucketsInOrder(hourly_data, hours) ==
    IF hours = {} THEN <<>>
    ELSE LET h == CHOOSE x \in hours : \A y \in hours : x <= y
         IN  <<hourly_data[h]>> \o BucketsInOrder(hourly_data, hours \ {h})

create_hourly_summary(L) ==
    IF L = <<>> THEN <<>>
    ELSE LET hourly_data == HourlyLoop(<<>>, L)
         IN  BucketsInOrder(hourly_data, DOMAIN hourly_data)

\* line 99 divides an end_time that is None: TypeError
HourlyRaises(L) ==
    \E i \in 1..Len(L) : Get(L[i], "end_time", 0) = None

----------------------------------------------------------------------------
(* create_daily_summary *)

\* lines 169-181: one session added to the summary
DailyAdd(summary, session) ==
    LET duration == Get(session, "duration", 0)
        category == Get(session, "category", "neutral")
        counted == [summary EXCEPT !["total_time"] = @ + duration]
    IN  IF category = "productive"
        THEN [counted EXCEPT !["productive_time"] = @ + duration]
        ELSE IF category = "neutral"
        THEN [counted EXCEPT !["neutral_time"] = @ + duration]
        ELSE IF category = "distracting"
        THEN [counted EXCEPT !["distracting_time"] = @ + duration]
        ELSE counted

RECURSIVE DailyLoop(_, _)
DailyLoop(summary, rest) ==
    IF rest = <<>> THEN summary
    ELSE DailyLoop(DailyAdd(summary, Head(rest)), Tail(rest))

\* apps_seen of lines 166-174
AppsSeen(L) == {Get(L[i], "app_name", "unknown") : i \in 1..Len(L)}

create_daily_summary(L) ==
    LET summary == DailyLoop([total_time |-> 0, productive_time |-> 0,
                              neutral_time |-> 0, distracting_time |-> 0,
                              num_sessions |-> Len(L), num_apps |-> 0], L)
    IN  [summary EXCEPT !["num_apps"] = Cardinality(AppsSeen(L))]

\* line 173 adds a duration that is None: TypeError
DailyRaises(L) ==
    \E i \in 1..Len(L) : Get(L[i], "duration", 0) = None

----------------------------------------------------------------------------
(* Inputs *)

MergeSessions ==
    {[app_name |-> a, start_time |-> s, end_time |-> e] :
        <<a, s, e>> \in {t \in Apps \X MergeTimes \X MergeTimes : t[2] <= t[3]}}
    \cup {[app_name |-> a, start_time |-> s] : <<a, s>> \in Apps \X MergeTimes}

MergeScenario ==
    << [app_name |-> "firefox", start_time |-> 1000, end_time |-> 1100],
       [app_name |-> "firefox", start_time |-> 1100, end_time |-> 1200],
       [app_name |-> "vscode",  start_time |-> 1200, end_time |-> 1300],
       [app_name |-> "firefox", start_time |-> 1300, end_time |-> 1400] >>

GapScenario ==
    << [app_name |-> "vscode", start_time |-> 1000, end_time |-> 1100],
       [app_name |-> "vscode", start_time |-> 1120, end_time |-> 1200],
       [app_name |-> "vscode", start_time |-> 1250, end_time |-> 1300] >>

HourSessions ==
    {[app_name |-> a, start_time |-> s, end_time |-> e] :
        <<a, s, e>> \in {t \in Apps \X HourTimes \X HourTimes : t[2] <= t[3]}}

HourScenario ==
    << [app_name |-> "firefox", start_time |-> 0, end_time |-> 1800, duration |-> 1800],
       [app_name |-> "vscode", start_time |-> 1800, end_time |-> 5400, duration |-> 3600],
       [app_name |-> "discord", start_time |-> 5400, end_time |-> 7200, duration |-> 1800] >>

\* records as create_daily_summary is given them: app_name with or without a
\* duration and a category
DailySessions ==
    {[app_name |-> a, duration |-> d, category |-> c] :
        <<a, d, c>> \in Apps \X Durations \X Categories}
    \cup {[app_name |-> a, duration |-> d] : <<a, d>> \in Apps \X Durations}
    \cup {[app_name |-> a, category |-> c] : <<a, c>> \in Apps \X Categories}
    \cup {[app_name |-> a] : a \in Apps}

DailyScenario ==
    << [app_name |-> "vscode", duration |-> 7200, category |-> "productive"],
       [app_name |-> "firefox", duration |-> 3600, category |-> "neutral"],
       [app_name |-> "youtube", duration |-> 1800, category |-> "distracting"] >>

Inputs ==
    SeqsUpTo(MergeSessions, MaxLen) \cup SeqsUpTo(HourSessions, MaxLen)
        \cup SeqsUpTo(DailySessions, MaxDaily)
        \cup {MergeScenario, HourScenario, DailyScenario}

----------------------------------------------------------------------------
(* The state machine: an aggregator is constructed, then its methods are   *)
(* called on the session list.                                             *)

\* nothing called yet; the categorizer and the store are not exercised
Idle ==
    /\ op = "init"
    /\ result = <<>>
    /\ error = "none"
    /\ arg = <<>>
    /\ current_session = None
    /\ manager_sessions = <<>>

Init ==
    /\ \/ sessions \in Inputs /\ gap_threshold \in GapChoices
       \/ sessions = GapScenario /\ gap_threshold = 30
    /\ min_duration = MinDurationDefault
    /\ now = 0
    /\ custom_rules = <<>>
    /\ store = <<>>
    /\ Idle

\* merge_consecutive_sessions is called on session records, which hold a
\* start_time: line 57 reads current["start_time"] and raises KeyError on a
\* record without one
Merge ==
    /\ \A i \in 1..Len(sessions) : "start_time" \in DOMAIN sessions[i]
    /\ IF MergeRaises(sessions, gap_threshold)
       THEN error' = "TypeError" /\ result' = <<>>
       ELSE error' = "none"
            /\ result' = merge_consecutive_sessions(sessions, gap_threshold)
    /\ op' = "merge"
    /\ UNCHANGED <<aggregatorVars, managerVars, otherVars, now, arg>>

Hourly ==
    /\ IF HourlyRaises(sessions)
       THEN error' = "TypeError" /\ result' = <<>>
       ELSE error' = "none" /\ result' = create_hourly_summary(sessions)
    /\ op' = "hourly"
    /\ UNCHANGED <<aggregatorVars, managerVars, otherVars, now, arg>>

Daily ==
    /\ IF DailyRaises(sessions)
       THEN error' = "TypeError" /\ result' = <<>>
       ELSE error' = "none" /\ result' = create_daily_summary(sessions)
    /\ op' = "daily"
    /\ UNCHANGED <<aggregatorVars, managerVars, otherVars, now, arg>>

Next == Merge \/ Hourly \/ Daily

Spec == Init /\ [][Next]_vars

----------------------------------------------------------------------------
(* Reference notions the properties are stated with *)

AllHaveEnd(L) == \A i \in 1..Len(L) : "end_time" \in DOMAIN L[i]

\* position of L[i] in start_time order, equal start times keeping input order
Rank(L, i) ==
    1 + Cardinality({j \in 1..Len(L) : L[j]["start_time"] < L[i]["start_time"]})
      + Cardinality({j \in 1..(i - 1) : L[j]["start_time"] = L[i]["start_time"]})

StartOrder(L) == [r \in 1..Len(L) |-> L[CHOOSE i \in 1..Len(L) : Rank(L, i) = r]]

\* S[i] opens a new output session: other app, or gap to its predecessor too large
Breaks(S, i, gap) ==
    \/ S[i]["app_name"] # S[i - 1]["app_name"]
    \/ S[i]["start_time"] - S[i - 1]["end_time"] > gap

RunStarts(S, gap) == {i \in 1..Len(S) : i = 1 \/ Breaks(S, i, gap)}

\* the k-th smallest element of a set of integers
Kth(I, k) == CHOOSE i \in I : Cardinality({j \in I : j <= i}) = k

RunEnd(S, starts, g) ==
    IF \E h \in starts : h > g
    THEN (CHOOSE h \in starts : h > g /\ \A x \in starts : x > g => h <= x) - 1
    ELSE Len(S)

\* C1: on sessions that all have an end_time, the output is one session per
\* maximal run, in start_time order (stable), of same-app sessions each
\* starting at most gap_threshold after its predecessor's end; the output
\* session has the run's app_name, the first start_time, the last end_time and
\* duration = end_time - start_time. The two unit-test scenarios give 3
\* outputs (the first firefox 1000-1200, duration 200) and 2 outputs.
C1_MergeRule ==
    /\ (op = "merge" /\ AllHaveEnd(sessions)) =>
          LET S == StartOrder(sessions)
              starts == RunStarts(S, gap_threshold)
          IN  /\ Len(result) = Cardinality(starts)
              /\ \A k \in 1..Len(result) :
                    LET g == Kth(starts, k)
                        l == RunEnd(S, starts, g)
                    IN  /\ result[k]["app_name"] = S[g]["app_name"]
                        /\ result[k]["start_time"] = S[g]["start_time"]
                        /\ result[k]["end_time"] = S[l]["end_time"]
                        /\ result[k]["duration"] = S[l]["end_time"] - S[g]["start_time"]
    /\ (op = "merge" /\ sessions = MergeScenario /\ gap_threshold = GapDefault) =>
          /\ Len(result) = 3
          /\ result[1] = [app_name |-> "firefox", start_time |-> 1000,
                          end_time |-> 1200, duration |-> 200]
    /\ (op = "merge" /\ sessions = GapScenario) =>
          /\ Len(result) = 2
          /\ result[1]["end_time"] = 1200
          /\ result[2]["start_time"] = 1250

C1_Witness ==
    /\ op = "merge"
    /\ sessions = MergeScenario
    /\ gap_threshold = GapDefault
    /\ Len(result) = 3
    /\ result[3]["app_name"] = "firefox"

Range(f) == {f[i] : i \in DOMAIN f}

\* the input, read in start_time order, has every session ending no later
\* than the next one starts
NonOverlappingInput(L) ==
    /\ AllHaveEnd(L)
    /\ \A i \in 1..Len(L) : L[i]["start_time"] <= L[i]["end_time"]
    /\ LET S == StartOrder(L)
       IN  \A i \in 1..(Len(S) - 1) : S[i]["end_time"] <= S[i + 1]["start_time"]

EndsBeforeNextStarts(out) ==
    \A k \in 1..(Len(out) - 1) : out[k]["end_time"] <= out[k + 1]["start_time"]

\* C2 as claimed: whenever every input session has end_time >= start_time,
\* consecutive output sessions a, b satisfy a.end_time <= b.start_time.
C2_NonOverlappingOutput ==
    (op = "merge" /\ AllHaveEnd(sessions)) => EndsBeforeNextStarts(result)

\* C2 amended: when the input sessions, in start_time order, do not overlap
\* (each ends no later than the next starts), consecutive output sessions
\* a, b satisfy a.end_time <= b.start_time.
C2_NonOverlappingKept ==
    (op = "merge" /\ NonOverlappingInput(sessions)) => EndsBeforeNextStarts(result)

C2_Witness ==
    /\ op = "merge"
    /\ NonOverlappingInput(sessions)
    /\ Len(sessions) = 3
    /\ Len(result) = 2
    /\ sessions # StartOrder(sessions)

\* C3: the output of merge_consecutive_sessions is in non-decreasing order of
\* start_time, whatever the order of the input.
C3_SortedOutput ==
    op = "merge" =>
        \A k \in 1..(Len(result) - 1) :
            result[k]["start_time"] <= result[k + 1]["start_time"]

C3_Witness ==
    /\ op = "merge"
    /\ Len(result) = 3
    /\ sessions[1]["start_time"] > sessions[2]["start_time"]
    /\ sessions[2]["start_time"] > sessions[3]["start_time"]

\* C4: merging the output of merge_consecutive_sessions again, with the same
\* gap_threshold, returns that output unchanged.
C4_Idempotent ==
    op = "merge" => merge_consecutive_sessions(result, gap_threshold) = result

C4_Witness ==
    /\ op = "merge"
    /\ Len(sessions) = 3
    /\ Len(result) = 2
    /\ \E i \in 1..3 : "end_time" \notin DOMAIN sessions[i]
    /\ result[1]["app_name"] = result[2]["app_name"]

RECURSIVE SumOver(_, _)
SumOver(f, n) == IF n = 0 THEN 0 ELSE f[n] + SumOver(f, n - 1)

\* C5 as claimed: when every input session has end_time >= start_time, every
\* output session has duration = end_time - start_time, every input session's
\* interval lies inside the interval of an output session of its app, and the
\* output durations sum to at least the input durations.
C5_NoTimeLost ==
    (op = "merge" /\ AllHaveEnd(sessions)) =>
        /\ \A k \in 1..Len(result) :
              result[k]["duration"] = result[k]["end_time"] - result[k]["start_time"]
        /\ \A i \in 1..Len(sessions) : \E k \in 1..Len(result) :
              /\ result[k]["app_name"] = sessions[i]["app_name"]
              /\ result[k]["start_time"] <= sessions[i]["start_time"]
              /\ sessions[i]["end_time"] <= result[k]["end_time"]
        /\ SumOver([k \in 1..Len(result) |-> result[k]["duration"]], Len(result))
             >= SumOver([i \in 1..Len(sessions) |->
                            sessions[i]["end_time"] - sessions[i]["start_time"]],
                        Len(sessions))

\* the end_time the accumulated session holds once S[i] has been taken in:
\* S[i]'s own, or for a session without one, 0 (the default read by the merge
\* test) if S[i] opened the accumulated session and S[i].start_time if it was
\* merged into it
EndSeen(S, i, opened) ==
    IF "end_time" \in DOMAIN S[i] THEN S[i]["end_time"]
    ELSE IF opened THEN 0 ELSE S[i]["start_time"]

\* B is the set of positions of S that open a new output session
ConsistentBreaks(S, B, gap) ==
    \A i \in 2..Len(S) :
        i \in B <=>
            \/ S[i]["app_name"] # S[i - 1]["app_name"]
            \/ S[i]["start_time"] - EndSeen(S, i - 1, (i - 1 = 1) \/ (i - 1 \in B)) > gap

\* C6 as claimed: a session without end_time is never merged; it is in the
\* output as its own, unchanged entry.
C6_MissingEndNeverMerged ==
    op = "merge" =>
        \A i \in 1..Len(sessions) :
            "end_time" \notin DOMAIN sessions[i] => sessions[i] \in Range(result)

\* C6 amended: a session without end_time is treated by the merge test as
\* ending at 0 while it is the accumulated session (so a following same-app
\* session extends it only if that session's start_time <= gap_threshold) and
\* is absorbed under the usual test when it follows a same-app accumulated
\* session, whose end_time then becomes its start_time; a session without
\* end_time that is neither absorbed nor extended is output as its own entry,
\* unchanged.
C6_MissingEndRule ==
    (op = "merge" /\ sessions # <<>>) =>
        LET S == StartOrder(sessions)
        IN  \E B \in SUBSET (2..Len(S)) :
              /\ ConsistentBreaks(S, B, gap_threshold)
              /\ Len(result) = 1 + Cardinality(B)
              /\ \A k \in 1..Len(result) :
                    LET g == Kth(B \cup {1}, k)
                        l == RunEnd(S, B \cup {1}, g)
                    IN  IF g = l /\ "end_time" \notin DOMAIN S[g]
                        THEN result[k] = S[g]
                        ELSE /\ result[k]["app_name"] = S[g]["app_name"]
                             /\ result[k]["start_time"] = S[g]["start_time"]
                             /\ result[k]["end_time"] = EndSeen(S, l, FALSE)
                             /\ result[k]["duration"] =
                                   EndSeen(S, l, FALSE) - S[g]["start_time"]

C6_Witness ==
    /\ op = "merge"
    /\ Len(sessions) = 3
    /\ \A i \in 1..3 : "end_time" \notin DOMAIN sessions[i]
    /\ Len(result) = 2
    /\ sessions[3] \in Range(result)
    /\ sessions[1] \notin Range(result)
    /\ sessions[2] \notin Range(result)

----------------------------------------------------------------------------
(* Properties of create_hourly_summary and create_daily_summary *)

\* every session has an end_time, not before its start_time
ClosedSessions(L) ==
    /\ \A i \in 1..Len(L) : {"start_time", "end_time"} \subseteq DOMAIN L[i]
    /\ \A i \in 1..Len(L) : L[i]["start_time"] <= L[i]["end_time"]

Max(a, b) == IF a >= b THEN a ELSE b
Min(a, b) == IF a <= b THEN a ELSE b

\* the length of the overlap of [s, e) with [h, h + 3600)
Overlap(s, e, h) == Max(0, Min(e, h + HOUR) - Max(s, h))

\* what the summary holds for app in the bucket of hour h (0 if none)
AppAmount(out, h, app) ==
    LET b == {k \in 1..Len(out) : out[k]["hour_start"] = h}
    IN  SumOver([k \in 1..Len(out) |->
                    IF k \in b
                    THEN SumOver([j \in 1..Len(out[k]["apps"]) |->
                                    IF out[k]["apps"][j]["name"] = app
                                    THEN out[k]["apps"][j]["duration"] ELSE 0],
                                 Len(out[k]["apps"]))
                    ELSE 0], Len(out))

\* the epoch-aligned hours up to one past the last end_time of L
HoursOf(L) ==
    {k * HOUR : k \in 0..(1 + SumOver([i \in 1..Len(L) |-> L[i]["end_time"] \div HOUR], Len(L)))}

\* C7: for sessions with end_time >= start_time, the total_duration of the
\* buckets of create_hourly_summary sum to the sum of end_time - start_time
\* over the input sessions.
C7_HourlyPreservesTotal ==
    (op = "hourly" /\ ClosedSessions(sessions)) =>
        SumOver([k \in 1..Len(result) |-> result[k]["total_duration"]], Len(result))
          = SumOver([i \in 1..Len(sessions) |->
                        sessions[i]["end_time"] - sessions[i]["start_time"]],
                    Len(sessions))

C7_Witness ==
    /\ op = "hourly"
    /\ ClosedSessions(sessions)
    /\ Len(sessions) = 2
    /\ Len(result) = 3
    /\ \E i \in 1..2 : sessions[i]["start_time"] = 1800 /\ sessions[i]["end_time"] = 9000
    /\ result[2]["total_duration"] > HOUR

\* C8: for sessions with end_time >= start_time, what create_hourly_summary
\* holds for an app in the bucket of an epoch-aligned hour h is the summed
\* overlap of that app's sessions [s, e) with [h, h + 3600); the sessions
\* [0,1800], [1800,5400], [5400,7200] give exactly 2 buckets of 3600 each.
C8_HourlyOverlap ==
    /\ (op = "hourly" /\ ClosedSessions(sessions)) =>
          \A h \in HoursOf(sessions) : \A i \in 1..Len(sessions) :
              LET app == sessions[i]["app_name"]
              IN  AppAmount(result, h, app)
                    = SumOver([j \in 1..Len(sessions) |->
                                  IF sessions[j]["app_name"] = app
                                  THEN Overlap(sessions[j]["start_time"],
                                               sessions[j]["end_time"], h)
                                  ELSE 0], Len(sessions))
    /\ (op = "hourly" /\ sessions = HourScenario) =>
          /\ Len(result) = 2
          /\ result[1]["hour_start"] = 0 /\ result[1]["total_duration"] = HOUR
          /\ result[2]["hour_start"] = HOUR /\ result[2]["total_duration"] = HOUR

C8_Witness ==
    /\ op = "hourly"
    /\ sessions = HourScenario
    /\ Len(result) = 2
    /\ Len(result[1]["apps"]) = 2
    /\ Len(result[2]["apps"]) = 2

\* C9 as claimed: for sessions with end_time >= start_time, the buckets of
\* create_hourly_summary have hour_start values that are multiples of 3600 in
\* strictly increasing order, and every bucket has total_duration > 0, equal
\* to the sum of its per-app durations.
C9_OnlyContributingHours ==
    (op = "hourly" /\ ClosedSessions(sessions)) =>
        /\ \A k \in 1..Len(result) : result[k]["hour_start"] % HOUR = 0
        /\ \A k \in 1..(Len(result) - 1) :
              result[k]["hour_start"] < result[k + 1]["hour_start"]
        /\ \A k \in 1..Len(result) :
              /\ result[k]["total_duration"] > 0
              /\ result[k]["total_duration"]
                   = SumOver([j \in 1..Len(result[k]["apps"]) |->
                                 result[k]["apps"][j]["duration"]],
                             Len(result[k]["apps"]))

\* C10 as claimed: create_daily_summary adds every session's duration to
\* exactly one of the three category times, a missing or unknown category
\* counting as neutral, so total_time is the sum of the three; num_sessions is
\* the number of sessions and num_apps the number of distinct app_name values.
C10_DailyPartition ==
    op = "daily" =>
        LET dur(i) == Get(sessions[i], "duration", 0)
            cat(i) == Get(sessions[i], "category", "neutral")
            time(C) == SumOver([i \in 1..Len(sessions) |->
                                   IF cat(i) \in C THEN dur(i) ELSE 0], Len(sessions))
            known == {"productive", "distracting"}
            others == {cat(i) : i \in 1..Len(sessions)} \ known
        IN  /\ result["productive_time"] = time({"productive"})
            /\ result["distracting_time"] = time({"distracting"})
            /\ result["neutral_time"] = time(others)
            /\ result["total_time"] = result["productive_time"]
                  + result["neutral_time"] + result["distracting_time"]
            /\ result["num_sessions"] = Len(sessions)
            /\ result["num_apps"]
                  = Cardinality({sessions[i]["app_name"] : i \in 1..Len(sessions)})


-----------------------------------------------------------------------------
(* filter_short_sessions and compress_old_data (aggregator.py lines        *)
(* 187-238), and the aggregator's methods on records with null fields      *)

MaxRec == 2
DAY == 86400
DaysDefault == 30

\* mutant: a session has to be longer than min_duration
FilterKeeps_Strict(session, min) == Get(session, "duration", 0) > min

\* line 200: the condition of the comprehension
FilterKeeps(session, min) == Get(session, "duration", 0) >= min

filter_short_sessions(L, min) == SelectSeq(L, LAMBDA s : FilterKeeps(s, min))

\* line 200 compares a duration that is None with an integer: TypeError
FilterRaises(L) ==
    \E i \in 1..Len(L) : Get(L[i], "duration", 0) = None

\* line 225
fields_to_keep == {"app_name", "start_time", "end_time", "duration", "category"}

\* mutant: a session exactly at the threshold is compressed
IsOld_Inclusive(session, current_time, threshold_time) ==
    Get(session, "start_time", current_time) <= threshold_time

\* line 223
IsOld(session, current_time, threshold_time) ==
    Get(session, "start_time", current_time) < threshold_time

\* lines 220-234 for one session: the dict the list receives is a copy, a new
\* object; id tells the objects apart, the input list holds objects 1..Len
CompressOne(session, new_id, current_time, threshold_time) ==
    LET session_copy == session
    IN  IF IsOld(session_copy, current_time, threshold_time)
        THEN [id |-> new_id,
              fields |-> [k \in DOMAIN session_copy \cap fields_to_keep |->
                             session_copy[k]]]
        ELSE [id |-> new_id, fields |-> session_copy]

\* returned: the list compress_old_data returns; input: the argument list as
\* the call leaves it
compress_old_data(L, current_time, days_threshold) ==
    LET threshold_time == current_time - days_threshold * 24 * 3600
    IN  [returned |-> [i \in 1..Len(L) |->
                          CompressOne(L[i], Len(L) + i, current_time, threshold_time)],
         input |-> L]

\* line 223 compares a start_time that is None with a number: TypeError
CompressRaises(L) ==
    \E i \in 1..Len(L) : Get(L[i], "start_time", 0) = None

\* the clock and the thresholds: with 30 days the threshold is second 100
NowChoices == {DaysDefault * DAY + 100}
DaysChoices == {1, DaysDefault}
MinDurationChoices == {MinDurationDefault, 60}

\* sessions around min_duration, with and without a duration
FilterSessions ==
    {[app_name |-> a, duration |-> d] : <<a, d>> \in Apps \X {29, 30, 60}}
    \cup {[app_name |-> a] : a \in Apps}

\* tests/unit/core/test_aggregator.py, test_aggregator_filters_short_sessions
FilterScenario ==
    << [app_name |-> "firefox", duration |-> 120],
       [app_name |-> "vscode", duration |-> 30],
       [app_name |-> "terminal", duration |-> 300],
       [app_name |-> "finder", duration |-> 5] >>

\* sessions just before, at and after the 30 day threshold, with and without
\* the details compression removes
CompressSessions ==
    {[app_name |-> "firefox", start_time |-> s, end_time |-> s + 30, duration |-> 30] :
        s \in {99, 100, 101}}
    \cup {[app_name |-> "firefox", start_time |-> s, end_time |-> s + 30,
           duration |-> 30, window_title |-> "main.py"] : s \in {99, 100, 101}}
    \cup {[app_name |-> "vscode", start_time |-> s, category |-> "productive",
           window_title |-> "main.py", id |-> 7] : s \in {99, 100, 101}}
    \cup {[app_name |-> "vscode", duration |-> 30, window_title |-> "main.py"]}

\* Session.to_dict (session.py lines 23-30) of an open and of a closed session
ToDictSessions ==
    {[app_name |-> a, start_time |-> s, end_time |-> None, duration |-> None] :
        <<a, s>> \in Apps \X {100, 135}}
    \cup {[app_name |-> a, start_time |-> s, end_time |-> s + 30, duration |-> 30] :
        <<a, s>> \in Apps \X {100, 135}}

\* rows of the store (database.py lines 109-120) of an open session, and
\* records that lack the fields
StoreSessions ==
    {[id |-> 1, app_name |-> a, category |-> "neutral", start_time |-> s,
      end_time |-> None, duration |-> None] : <<a, s>> \in Apps \X {100, 135}}
    \cup {[app_name |-> a, start_time |-> s] : <<a, s>> \in Apps \X {100, 135}}
    \cup {[app_name |-> a, start_time |-> s, end_time |-> s + 30, duration |-> 30,
           category |-> "None"] : <<a, s>> \in Apps \X {100, 135}}

NullSessions == ToDictSessions \cup StoreSessions

InitRecords ==
    /\ \/ sessions \in SeqsUpTo(FilterSessions, MaxLen)
          /\ min_duration \in MinDurationChoices
       \/ sessions = FilterScenario /\ min_duration = 60
       \/ sessions \in SeqsUpTo(CompressSessions, MaxRec)
          /\ min_duration = MinDurationDefault
       \/ sessions \in SeqsUpTo(NullSessions, MaxRec)
          /\ min_duration = MinDurationDefault
    /\ gap_threshold = GapDefault
    /\ now \in NowChoices
    /\ custom_rules = <<>>
    /\ store = <<>>
    /\ Idle

Filter ==
    /\ IF FilterRaises(sessions)
       THEN error' = "TypeError" /\ result' = <<>>
       ELSE error' = "none"
            /\ result' = filter_short_sessions(sessions, min_duration)
    /\ op' = "filter"
    /\ UNCHANGED <<aggregatorVars, managerVars, otherVars, now, arg>>

Compress ==
    \E days_threshold \in DaysChoices :
        /\ IF CompressRaises(sessions)
           THEN error' = "TypeError" /\ result' = <<>> /\ UNCHANGED sessions
           ELSE LET out == compress_old_data(sessions, now, days_threshold)
                IN  /\ error' = "none"
                    /\ result' = out.returned
                    /\ sessions' = out.input
        /\ op' = "compress"
        /\ arg' = [days_threshold |-> days_threshold, sessions |-> sessions]
        /\ UNCHANGED <<gap_threshold, min_duration, otherVars, managerVars, now>>

NextRecords == Merge \/ Hourly \/ Daily \/ Filter \/ Compress

SpecRecords == InitRecords /\ [][NextRecords]_vars

\* the positions of L whose duration is recorded and reaches min
LongEnough(L, min) ==
    {i \in 1..Len(L) : "duration" \in DOMAIN L[i] /\ L[i]["duration"] >= min}

\* C11: filter_short_sessions returns exactly the input sessions whose
\* recorded duration is at least min_duration, in input order and unmodified;
\* a session without a duration is dropped; filtering the result again
\* returns it unchanged
C11_FilterKeepsLongEnough ==
    (op = "filter" /\ error = "none") =>
        LET keep == LongEnough(sessions, min_duration)
        IN  /\ min_duration > 0
            /\ Len(result) = Cardinality(keep)
            /\ \A k \in 1..Len(result) : result[k] = sessions[Kth(keep, k)]
            /\ \A k \in 1..Len(result) : "duration" \in DOMAIN result[k]
            /\ filter_short_sessions(result, min_duration) = result

C11_Witness ==
    /\ op = "filter" /\ error = "none"
    /\ Len(result) = 2 /\ Len(sessions) = 3
    /\ "duration" \notin DOMAIN sessions[2]
    /\ result[1]["duration"] = min_duration
    /\ result[2] = sessions[3]

\* the positions of L that start before the threshold
OldOnes(L, current_time, days_threshold) ==
    {i \in 1..Len(L) : /\ "start_time" \in DOMAIN L[i]
                       /\ L[i]["start_time"] < current_time - days_threshold * DAY}

\* C12: compress_old_data returns a list of the same length and order; a
\* session that starts before now - days_threshold*86400 keeps only its
\* essential fields with their values, every other session (one exactly at
\* the threshold included) keeps all its fields; the input is not modified
\* and no returned session is an object of the input
C12_CompressOld ==
    (op = "compress" /\ error = "none") =>
        LET old == OldOnes(sessions, now, arg.days_threshold)
        IN  /\ sessions = arg.sessions
            /\ Len(result) = Len(sessions)
            /\ \A i \in 1..Len(result) :
                  LET r == result[i].fields
                      s == sessions[i]
                  IN  /\ result[i].id \notin 1..Len(sessions)
                      /\ \A k \in DOMAIN r : k \in DOMAIN s /\ r[k] = s[k]
                      /\ IF i \in old
                         THEN DOMAIN r = DOMAIN s \cap
                                 {"app_name", "start_time", "end_time",
                                  "duration", "category"}
                         ELSE DOMAIN r = DOMAIN s

C12_Witness ==
    /\ op = "compress" /\ error = "none"
    /\ arg.days_threshold = DaysDefault
    /\ Len(sessions) = 2
    /\ Get(sessions[1], "start_time", now) = now - DaysDefault * DAY - 1
    /\ "window_title" \in DOMAIN sessions[1]
    /\ "window_title" \notin DOMAIN result[1].fields
    /\ Get(sessions[2], "start_time", now) = now - DaysDefault * DAY
    /\ "window_title" \in DOMAIN result[2].fields


\* every session has app_name and start_time; end_time, duration and
\* category may be absent or null
KnownAppAndStart(L) ==
    \A i \in 1..Len(L) :
        /\ "app_name" \in DOMAIN L[i]
        /\ "start_time" \in DOMAIN L[i] /\ L[i]["start_time"] # None

\* C13: merge, hourly summary, daily summary and filter complete without
\* raising on sessions that have app_name and start_time and whose end_time,
\* duration or category is absent or null
C13_NullFieldsNeverRaise ==
    (op \in {"merge", "hourly", "daily", "filter"} /\ KnownAppAndStart(sessions))
        => error = "none"


-----------------------------------------------------------------------------
(* AppCategorizer (categorizer.py). An application name is a Python str:   *)
(* the sequence of its characters; a category is one of the fixed words.   *)

UpperCase == <<"A", "B", "C", "D", "E", "F", "G", "H", "I", "J", "K", "L", "M", "N", "O", "P", "Q", "R", "S", "T", "U", "V", "W", "X", "Y", "Z">>
LowerCase == <<"a", "b", "c", "d", "e", "f", "g", "h", "i", "j", "k", "l", "m", "n", "o", "p", "q", "r", "s", "t", "u", "v", "w", "x", "y", "z">>

\* str.lower() of one character and of a name
LowerChar(c) ==
    IF \E i \in 1..Len(UpperCase) : UpperCase[i] = c
    THEN LowerCase[CHOOSE i \in 1..Len(UpperCase) : UpperCase[i] = c]
    ELSE c

lower(name) == [i \in 1..Len(name) |-> LowerChar(name[i])]

\* Python's `a in b` for two strings
IsSubstring(a, b) ==
    \E i \in 0..(Len(b) - Len(a)) : SubSeq(b, i + 1, i + Len(a)) = a

\* lines 14-42
DEFAULT_CATEGORIES ==
    [productive |->
        <<<<"V", "i", "s", "u", "a", "l", " ", "S", "t", "u", "d", "i", "o", " ", "C", "o", "d", "e">>,
          <<"V", "S", "C", "o", "d", "e">>,
          <<"C", "o", "d", "e">>,
          <<"P", "y", "C", "h", "a", "r", "m">>,
          <<"I", "n", "t", "e", "l", "l", "i", "J">>,
          <<"E", "c", "l", "i", "p", "s", "e">>,
          <<"S", "u", "b", "l", "i", "m", "e", " ", "T", "e", "x", "t">>,
          <<"T", "e", "r", "m", "i", "n", "a", "l">>,
          <<"C", "o", "n", "s", "o", "l", "e">>,
          <<"i", "T", "e", "r", "m">>,
          <<"P", "o", "w", "e", "r", "S", "h", "e", "l", "l">>,
          <<"G", "i", "t">>,
          <<"G", "i", "t", "H", "u", "b", " ", "D", "e", "s", "k", "t", "o", "p">>,
          <<"V", "i", "m">>,
          <<"E", "m", "a", "c", "s">>,
          <<"N", "a", "n", "o">>,
          <<"X", "c", "o", "d", "e">>,
          <<"A", "n", "d", "r", "o", "i", "d", " ", "S", "t", "u", "d", "i", "o">>,
          <<"P", "o", "s", "t", "m", "a", "n">>,
          <<"D", "o", "c", "k", "e", "r", " ", "D", "e", "s", "k", "t", "o", "p">>,
          <<"M", "i", "c", "r", "o", "s", "o", "f", "t", " ", "W", "o", "r", "d">>,
          <<"M", "i", "c", "r", "o", "s", "o", "f", "t", " ", "E", "x", "c", "e", "l">>,
          <<"M", "i", "c", "r", "o", "s", "o", "f", "t", " ", "P", "o", "w", "e", "r", "P", "o", "i", "n", "t">>,
          <<"G", "o", "o", "g", "l", "e", " ", "D", "o", "c", "s">>,
          <<"G", "o", "o", "g", "l", "e", " ", "S", "h", "e", "e", "t", "s">>,
          <<"N", "o", "t", "i", "o", "n">>,
          <<"O", "b", "s", "i", "d", "i", "a", "n">>,
          <<"R", "o", "a", "m", " ", "R", "e", "s", "e", "a", "r", "c", "h">>>>,
     neutral |->
        <<<<"F", "i", "r", "e", "f", "o", "x">>,
          <<"C", "h", "r", "o", "m", "e">>,
          <<"S", "a", "f", "a", "r", "i">>,
          <<"E", "d", "g", "e">>,
          <<"B", "r", "a", "v", "e">>,
          <<"T", "h", "u", "n", "d", "e", "r", "b", "i", "r", "d">>,
          <<"M", "a", "i", "l">>,
          <<"O", "u", "t", "l", "o", "o", "k">>,
          <<"S", "l", "a", "c", "k">>,
          <<"M", "i", "c", "r", "o", "s", "o", "f", "t", " ", "T", "e", "a", "m", "s">>,
          <<"Z", "o", "o", "m">>,
          <<"F", "i", "n", "d", "e", "r">>,
          <<"E", "x", "p", "l", "o", "r", "e", "r">>,
          <<"F", "i", "l", "e", " ", "M", "a", "n", "a", "g", "e", "r">>,
          <<"S", "e", "t", "t", "i", "n", "g", "s">>,
          <<"S", "y", "s", "t", "e", "m", " ", "P", "r", "e", "f", "e", "r", "e", "n", "c", "e", "s">>,
          <<"S", "p", "o", "t", "i", "f", "y">>,
          <<"A", "p", "p", "l", "e", " ", "M", "u", "s", "i", "c">>>>,
     distracting |->
        <<<<"Y", "o", "u", "T", "u", "b", "e">>,
          <<"N", "e", "t", "f", "l", "i", "x">>,
          <<"T", "w", "i", "t", "c", "h">>,
          <<"D", "i", "s", "n", "e", "y", "+">>,
          <<"F", "a", "c", "e", "b", "o", "o", "k">>,
          <<"T", "w", "i", "t", "t", "e", "r">>,
          <<"I", "n", "s", "t", "a", "g", "r", "a", "m">>,
          <<"T", "i", "k", "T", "o", "k">>,
          <<"R", "e", "d", "d", "i", "t">>,
          <<"D", "i", "s", "c", "o", "r", "d">>,
          <<"S", "t", "e", "a", "m">>,
          <<"E", "p", "i", "c", " ", "G", "a", "m", "e", "s">>,
          <<"L", "e", "a", "g", "u", "e", " ", "o", "f", " ", "L", "e", "g", "e", "n", "d", "s">>,
          <<"W", "h", "a", "t", "s", "A", "p", "p">>,
          <<"T", "e", "l", "e", "g", "r", "a", "m">>,
          <<"S", "i", "g", "n", "a", "l">>>>]

\* lines 59-61 for one category: the keys in the order they are inserted
LoadDefaultsOf(category) ==
    [i \in 1..Len(DEFAULT_CATEGORIES[category]) |->
        [key |-> lower(DEFAULT_CATEGORIES[category][i]), category |-> category]]

\* self.categories after _load_defaults, in the dict's iteration order
categories ==
    LoadDefaultsOf("productive") \o LoadDefaultsOf("neutral")
        \o LoadDefaultsOf("distracting")

\* lines 92-93: the condition of the partial match
PartialMatch(key, app_lower) ==
    IsSubstring(key, app_lower) \/ IsSubstring(app_lower, key)

get_category(rules, app_name) ==
    LET app_lower == lower(app_name)
        exact == {i \in 1..Len(categories) : categories[i].key = app_lower}
        partial == {i \in 1..Len(categories) :
                       PartialMatch(categories[i].key, app_lower)}
    IN  IF app_lower \in DOMAIN rules THEN rules[app_lower]
        ELSE IF exact # {} THEN categories[CHOOSE i \in exact : TRUE].category
        ELSE IF partial # {}
             THEN categories[CHOOSE i \in partial : \A j \in partial : i <= j].category
             ELSE "neutral"

\* mutant: every category is accepted
IsValidCategory_Any(category) == TRUE

\* line 101
IsValidCategory(category) ==
    category \in {"productive", "neutral", "distracting"}

\* A JSON value as json.load returns it
JNumber == [type |-> "number"]
JNull == [type |-> "null"]
JString(chars) == [type |-> "string", chars |-> chars]
JArray(items) == [type |-> "array", items |-> items]
JObject(members) == [type |-> "object", members |-> members]
Member(key, value) == [key |-> key, value |-> value]

CategoriesWord == <<"c", "a", "t", "e", "g", "o", "r", "i", "e", "s">>

\* line 72, 'categories' in config: a key of a dict, an item of a list, a
\* substring of a str
HasCategories(config) ==
    IF config.type = "object"
    THEN \E i \in 1..Len(config.members) : config.members[i].key = "categories"
    ELSE IF config.type = "array"
    THEN \E i \in 1..Len(config.items) :
            /\ config.items[i].type = "string"
            /\ config.items[i].chars = CategoriesWord
    ELSE IsSubstring(CategoriesWord, config.chars)

\* line 74, the values `for app in apps` visits: the items of a list, the
\* characters of a str
AppsOf(apps) ==
    IF apps.type = "array" THEN apps.items
    ELSE [i \in 1..Len(apps.chars) |-> JString(<<apps.chars[i]>>)]

\* lines 74-75 for one category: app.lower() of a value that is no str
\* raises AttributeError, after the rules stored so far
RECURSIVE LoadApps(_, _, _)
LoadApps(apps, category, rules) ==
    IF apps = <<>> THEN [rules |-> rules, error |-> "none"]
    ELSE IF Head(apps).type # "string"
    THEN [rules |-> rules, error |-> "AttributeError"]
    ELSE LoadApps(Tail(apps), category,
                  Put(rules, lower(Head(apps).chars), category))

\* lines 73-75: iterating a number or null raises TypeError
RECURSIVE LoadSections(_, _)
LoadSections(members, rules) ==
    IF members = <<>> THEN [rules |-> rules, error |-> "none"]
    ELSE LET apps == Head(members).value
         IN  IF apps.type \notin {"array", "string"}
             THEN [rules |-> rules, error |-> "TypeError"]
             ELSE LET loaded == LoadApps(AppsOf(apps), Head(members).key, rules)
                  IN  IF loaded.error # "none" THEN loaded
                      ELSE LoadSections(Tail(members), loaded.rules)

\* lines 72-75 on the parsed document. The except clause of line 76 catches
\* JSONDecodeError and IOError only: TypeError and AttributeError leave
\* _load_custom_rules and the constructor
LoadConfig(config) ==
    IF config.type \in {"number", "null"}
    THEN [rules |-> <<>>, error |-> "TypeError"]
    ELSE IF ~HasCategories(config) THEN [rules |-> <<>>, error |-> "none"]
    ELSE IF config.type # "object"
    THEN [rules |-> <<>>, error |-> "TypeError"]
    ELSE LET i == CHOOSE j \in 1..Len(config.members) :
                      config.members[j].key = "categories"
             section == config.members[i].value
         IN  IF section.type # "object"
             THEN [rules |-> <<>>, error |-> "AttributeError"]
             ELSE LoadSections(section.members, <<>>)

\* lines 63-77: a file that cannot be read (IOError) or parsed
\* (JSONDecodeError) is ignored
load_custom_rules(file) ==
    IF file.kind \in {"unreadable", "invalid"}
    THEN [rules |-> <<>>, error |-> "none"]
    ELSE LoadConfig(file.value)

Document(value) == [kind |-> "json", value |-> value]

\* tests/unit/core/test_categorizer.py,
\* test_categorizer_loads_custom_rules_from_file, with one name a category
RuleFileScenario ==
    Document(JObject(<<Member("categories", JObject(<<
        Member("productive", JArray(<<JString(<<"I", "D", "E">>)>>)),
        Member("distracting", JArray(<<JString(<<"G", "a", "m", "e", "s">>)>>))>>))>>))

\* rule files: unreadable, not JSON, JSON of the expected shape, JSON of
\* other shapes and JSON of the expected shape with a category of its own
RuleFiles ==
    { [kind |-> "unreadable"], [kind |-> "invalid"], RuleFileScenario,
      Document(JObject(<<Member("categories", JObject(<<>>))>>)),
      Document(JObject(<<Member("other", JNumber)>>)),
      Document(JNumber), Document(JNull),
      Document(JString(CategoriesWord)),
      Document(JArray(<<JString(CategoriesWord)>>)),
      Document(JArray(<<JString(<<"x">>)>>)),
      Document(JObject(<<Member("categories", JArray(<<JString(<<"I", "D", "E">>)>>))>>)),
      Document(JObject(<<Member("categories", JNull)>>)),
      Document(JObject(<<Member("categories",
          JObject(<<Member("productive", JString(<<"a", "b">>))>>))>>)),
      Document(JObject(<<Member("categories",
          JObject(<<Member("productive", JNumber)>>))>>)),
      Document(JObject(<<Member("categories",
          JObject(<<Member("productive", JArray(<<JString(<<"I", "D", "E">>), JNumber>>))>>))>>)),
      Document(JObject(<<Member("categories",
          JObject(<<Member("fun", JArray(<<JString(<<"I", "D", "E">>)>>))>>))>>)) }

\* names asked for: the unit tests' names, other spellings of them, names
\* that contain a rule key or are contained in one, the empty name
Names ==
    { <<"V", "i", "s", "u", "a", "l", " ", "S", "t", "u", "d", "i", "o", " ", "C", "o", "d", "e">>,
      <<"F", "i", "r", "e", "f", "o", "x">>,
      <<"Y", "o", "u", "T", "u", "b", "e">>,
      <<"U", "n", "k", "n", "o", "w", "n", "A", "p", "p", "1", "2", "3">>,
      <<"D", "i", "s", "c", "o", "r", "d">>,
      <<"D", "I", "S", "C", "O", "R", "D">>,
      <<"d", "i", "s", "c", "o", "r", "d", " ", "s", "e", "r", "v", "e", "r">>,
      <<"I", "D", "E">>,
      <<"M", "y", "I", "D", "E">>,
      <<"G", "i", "t", " ", "G", "u", "i">>,
      <<"V", "i", "s", "u", "a", "l">>,
      <<"a">>,
      <<>> }

\* names and categories given to set_category
SetNames == { <<"D", "i", "s", "c", "o", "r", "d">>, <<"d", "i", "s", "c", "o", "r", "d">>, <<"I", "D", "E">>, <<"F", "i", "r", "e", "f", "o", "x">> }
CategoryArgs == {"productive", "neutral", "distracting", "invalid"}

InitCategorizer ==
    /\ custom_rules = <<>>
    /\ sessions = <<>>
    /\ gap_threshold = GapDefault
    /\ min_duration = MinDurationDefault
    /\ now = 0
    /\ store = <<>>
    /\ Idle

\* the constructor did not raise: there is a categorizer to call
Constructed == ~(op = "load" /\ error # "none")

\* __init__ lines 53-55 with a rule file that exists
LoadCustomRules ==
    \E file \in RuleFiles :
        /\ op = "init"
        /\ LET loaded == load_custom_rules(file)
           IN  custom_rules' = loaded.rules /\ error' = loaded.error
        /\ op' = "load"
        /\ arg' = file
        /\ result' = <<>>
        /\ UNCHANGED <<aggregatorVars, managerVars, now, store>>

GetCategory ==
    \E app_name \in Names :
        /\ Constructed
        /\ result' = get_category(custom_rules, app_name)
        /\ error' = "none"
        /\ op' = "get_category"
        /\ arg' = app_name
        /\ UNCHANGED <<aggregatorVars, managerVars, now, store, custom_rules>>

SetCategory ==
    \E app_name \in SetNames, category \in CategoryArgs :
        /\ Constructed
        /\ IF IsValidCategory(category)
           THEN /\ custom_rules' = Put(custom_rules, lower(app_name), category)
                /\ error' = "none"
           ELSE /\ error' = "ValueError"
                /\ UNCHANGED custom_rules
        /\ op' = "set_category"
        /\ arg' = <<app_name, category>>
        /\ result' = <<>>
        /\ UNCHANGED <<aggregatorVars, managerVars, now, store>>

NextCategorizer == LoadCustomRules \/ GetCategory \/ SetCategory

SpecCategorizer == InitCategorizer /\ [][NextCategorizer]_vars


\* the categories of every rule key, override or default, that contains the
\* name or is contained in it
SubstringCategories(rules, app_lower) ==
    {rules[k] : k \in {x \in DOMAIN rules : PartialMatch(x, app_lower)}}
    \cup {categories[i].category :
            i \in {j \in 1..Len(categories) :
                      PartialMatch(categories[j].key, app_lower)}}

\* C14: get_category ignores case and resolves by (1) the exact override,
\* (2) the exact default, (3) a substring match in either direction against
\* any rule key, override or default, (4) neutral
C14_ResolutionOrder ==
    (op = "get_category" /\ DOMAIN custom_rules \subseteq {lower(n) : n \in SetNames}) =>
        LET app_lower == lower(arg)
            exact == {i \in 1..Len(categories) : categories[i].key = app_lower}
            matches == SubstringCategories(custom_rules, app_lower)
        IN  IF app_lower \in DOMAIN custom_rules
            THEN result = custom_rules[app_lower]
            ELSE IF exact # {}
            THEN \E i \in exact : result = categories[i].category
            ELSE IF matches # {} THEN result \in matches
            ELSE result = "neutral"

\* C15: set_category with a category outside the three fails and leaves the
\* override rules as they were, so every name resolves as before; with a
\* valid category it changes only the override of the lower-cased name
C15_SetCategory ==
    [][op' = "set_category" =>
          IF arg'[2] \in {"productive", "neutral", "distracting"}
          THEN /\ error' = "none"
               /\ DOMAIN custom_rules' = DOMAIN custom_rules \cup {lower(arg'[1])}
               /\ custom_rules'[lower(arg'[1])] = arg'[2]
               /\ \A k \in DOMAIN custom_rules :
                     k # lower(arg'[1]) => custom_rules'[k] = custom_rules[k]
               /\ get_category(custom_rules', arg'[1]) = arg'[2]
          ELSE /\ error' = "ValueError"
               /\ custom_rules' = custom_rules
               /\ \A n \in Names :
                     get_category(custom_rules', n) = get_category(custom_rules, n)
      ]_vars

\* an invalid category was refused by a categorizer that holds overrides,
\* one of them for a name the defaults categorize otherwise
C15_Witness ==
    /\ op = "set_category" /\ error = "ValueError"
    /\ arg[2] = "invalid"
    /\ lower(arg[1]) \in DOMAIN custom_rules
    /\ get_category(custom_rules, arg[1]) # get_category(<<>>, arg[1])

\* the rule file is valid JSON of the expected shape: an object whose
\* categories section is an object of lists of strings
WellShaped(file) ==
    /\ file.kind = "json"
    /\ file.value.type = "object"
    /\ \E i \in 1..Len(file.value.members) :
          /\ file.value.members[i].key = "categories"
          /\ LET section == file.value.members[i].value
             IN  /\ section.type = "object"
                 /\ \A j \in 1..Len(section.members) :
                       LET apps == section.members[j].value
                       IN  /\ apps.type = "array"
                           /\ \A k \in 1..Len(apps.items) :
                                 apps.items[k].type = "string"

\* C17: constructing a categorizer from a rule file that is unreadable, not
\* JSON or JSON of the wrong shape never raises and leaves the override
\* rules empty
C17_BadRuleFileIgnored ==
    (op = "load" /\ ~WellShaped(arg)) =>
        (error = "none" /\ DOMAIN custom_rules = {})


-----------------------------------------------------------------------------
(* calculate_productivity_score (categorizer.py lines 126-153). The score  *)
(* is computed in IEEE 754 double precision: a positive double is its 53   *)
(* significand bits, most significant first, and the exponent of the first *)
(* bit; every operation rounds its exact result to nearest, ties to even.  *)

MaxTime == 20
Significand == 53

\* the binary digits of a natural number, none for 0
RECURSIVE ToBits(_)
ToBits(n) == IF n = 0 THEN <<>> ELSE ToBits(n \div 2) \o <<n % 2>>

RECURSIVE FromBits(_)
FromBits(bits) ==
    IF bits = <<>> THEN 0
    ELSE 2 * FromBits(SubSeq(bits, 1, Len(bits) - 1)) + bits[Len(bits)]

AnyBitSet(bits) == \E i \in 1..Len(bits) : bits[i] = 1

\* bits + 1, with the carry out of the first bit: the last 0 becomes 1 and
\* the 1s after it become 0
Increment(bits) ==
    LET zeros == {i \in 1..Len(bits) : bits[i] = 0}
    IN  IF zeros = {}
        THEN [bits |-> [i \in 1..Len(bits) |-> 0], carry |-> 1]
        ELSE LET last == CHOOSE i \in zeros : \A j \in zeros : j <= i
             IN  [bits |-> [i \in 1..Len(bits) |->
                              IF i < last THEN bits[i]
                              ELSE IF i = last THEN 1 ELSE 0],
                  carry |-> 0]

\* round to nearest, ties to even: bits are the first 53 bits of the exact
\* result, e the exponent of the first, above whether the rest is more than
\* half a unit of the last bit, half whether it is exactly half
RoundToNearestEven(bits, e, above, half) ==
    IF above \/ (half /\ bits[Len(bits)] = 1)
    THEN LET up == Increment(bits)
         IN  IF up.carry = 1
             THEN [m |-> <<1>> \o SubSeq(up.bits, 1, Len(bits) - 1), e |-> e + 1]
             ELSE [m |-> up.bits, e |-> e]
    ELSE [m |-> bits, e |-> e]

\* a / b scaled by a power of two into [1, 2): r / b with b <= r < 2b
RECURSIVE Normalise(_, _, _)
Normalise(r, b, e) ==
    IF r >= 2 * b THEN Normalise(r, 2 * b, e + 1)
    ELSE IF r >= b THEN [r |-> r, b |-> b, e |-> e]
    ELSE Normalise(2 * r, b, e - 1)

\* long division: bits followed by the next k bits of r / b, and what is
\* left, in units of the bit after them
RECURSIVE DivBits(_, _, _, _)
DivBits(r, b, k, bits) ==
    IF k = 0 THEN [bits |-> bits, rem |-> r]
    ELSE IF r >= b THEN DivBits(2 * (r - b), b, k - 1, Append(bits, 1))
    ELSE DivBits(2 * r, b, k - 1, Append(bits, 0))

\* line 150, weighted_total / total_time: the double nearest to a / b, for
\* integers a, b > 0
FloatDiv(a, b) ==
    LET n == Normalise(a, b, 0)
        q == DivBits(n.r, n.b, Significand, <<>>)
    IN  RoundToNearestEven(q.bits, n.e, q.rem > n.b, q.rem = n.b)

\* the exact product of the first i bits of a bit string and a natural
\* number, plus carry, followed by the bits of the product found so far
RECURSIVE MulBits(_, _, _, _, _)
MulBits(bits, i, c, carry, product) ==
    IF i = 0 THEN ToBits(carry) \o product
    ELSE IF (bits[i] * c + carry) % 2 = 1
    THEN MulBits(bits, i - 1, c, (bits[i] * c + carry) \div 2, <<1>> \o product)
    ELSE MulBits(bits, i - 1, c, (bits[i] * c + carry) \div 2, <<0>> \o product)

\* line 150, (...) * 100: the double nearest to x * c
FloatMul(x, c) ==
    LET product == MulBits(x.m, Significand, c, 0, <<>>)
        extra == Len(product) - Significand
        dropped == SubSeq(product, Significand + 1, Len(product))
    IN  RoundToNearestEven(SubSeq(product, 1, Significand), x.e + extra,
            extra > 0 /\ dropped[1] = 1 /\ AnyBitSet(Tail(dropped)),
            extra > 0 /\ dropped[1] = 1 /\ ~AnyBitSet(Tail(dropped)))

\* line 153, round(score): the integer nearest to the positive double x, an
\* exact half going to the even integer
FloatRound(x) ==
    IF x.e < -1 THEN 0
    ELSE IF x.e = -1 THEN (IF AnyBitSet(Tail(x.m)) THEN 1 ELSE 0)
    ELSE LET whole == FromBits(SubSeq(x.m, 1, x.e + 1))
             fraction == SubSeq(x.m, x.e + 2, Significand)
         IN  IF /\ fraction # <<>>
                /\ fraction[1] = 1
                /\ (AnyBitSet(Tail(fraction)) \/ whole % 2 = 1)
             THEN whole + 1
             ELSE whole

\* lines 141-153. weighted_total = p*1.0 + n*0.5 + d*0.0 is exact, it is
\* (2p + n) / 2; a weighted_total of 0.0 gives the score 0.0
calculate_productivity_score(productive_time, neutral_time, distracting_time) ==
    LET total_time == productive_time + neutral_time + distracting_time
        twice_weighted == 2 * productive_time + neutral_time
    IN  IF total_time = 0 THEN 0
        ELSE IF twice_weighted = 0 THEN 0
        ELSE FloatRound(FloatMul(FloatDiv(twice_weighted, 2 * total_time), 100))

\* tests/unit/core/test_categorizer.py lines 53-80
ScoreScenarios == {<<480, 60, 60>>, <<0, 0, 0>>}

InitScore ==
    /\ arg \in ((0..MaxTime) \X (0..MaxTime) \X (0..MaxTime)) \cup ScoreScenarios
    /\ op = "init"
    /\ result = <<>>
    /\ error = "none"
    /\ custom_rules = <<>>
    /\ sessions = <<>>
    /\ gap_threshold = GapDefault
    /\ min_duration = MinDurationDefault
    /\ now = 0
    /\ store = <<>>
    /\ current_session = None
    /\ manager_sessions = <<>>

Score ==
    /\ result' = calculate_productivity_score(arg[1], arg[2], arg[3])
    /\ error' = "none"
    /\ op' = "score"
    /\ UNCHANGED <<aggregatorVars, managerVars, otherVars, now, arg>>

NextScore == Score

SpecScore == InitScore /\ [][NextScore]_vars

\* 100 * (p + n/2) / (p + n + d) rounded to the nearest integer, an exact
\* half to the even one, in exact arithmetic
ExactScore(p, n, d) ==
    LET num == 100 * (2 * p + n)
        den == 2 * (p + n + d)
        q == num \div den
        r == num % den
    IN  IF 2 * r > den \/ (2 * r = den /\ q % 2 = 1) THEN q + 1 ELSE q

\* C16: calculate_productivity_score(p, n, d) is an integer in [0, 100]
\* equal to 100*(p + n/2)/(p+n+d) rounded to the nearest integer, an exact
\* half going to the even integer, and 0 when p+n+d = 0
C16_ScoreIsRoundedRatio ==
    op = "score" =>
        /\ error = "none"
        /\ result \in 0..100
        /\ IF arg[1] + arg[2] + arg[3] = 0 THEN result = 0
           ELSE result = ExactScore(arg[1], arg[2], arg[3])


-----------------------------------------------------------------------------
(* ReportGenerator (reports.py) over the session store (database.py). A    *)
(* row of the store is the dict get_sessions_by_date builds from it; the   *)
(* category of a row is the one of its application.                        *)

MaxStore == 2
MaxTop == 3
WEEK == 7

\* line 56, `if duration:` -- neither None nor 0
Truthy(duration) == duration # None /\ duration # 0

\* database.py line 108, ORDER BY s.start_time (the rows of the stores below
\* have distinct start times)
OrderByStartTime(rows) == sorted_sessions(rows)

\* database.py line 107, the WHERE clause
InDateRange(row, start_date, end_date) ==
    row["start_time"] >= start_date /\ row["start_time"] <= end_date

\* database.py lines 93-122
get_sessions_by_date(rows, start_date, end_date) ==
    OrderByStartTime(SelectSeq(rows, LAMBDA row : InDateRange(row, start_date, end_date)))

\* reports.py line 48
RECURSIVE TotalTime(_)
TotalTime(fetched) ==
    IF fetched = <<>> THEN 0
    ELSE (IF Truthy(Get(Head(fetched), "duration", 0))
          THEN Get(Head(fetched), "duration", 0) ELSE 0) + TotalTime(Tail(fetched))

\* line 61, app_times[app_name] += duration: app_times in insertion order
AppTimesAdd(app_times, app_name, duration) ==
    IF \E i \in 1..Len(app_times) : app_times[i]["name"] = app_name
    THEN [i \in 1..Len(app_times) |->
            IF app_times[i]["name"] = app_name
            THEN [name |-> app_name, duration |-> app_times[i]["duration"] + duration]
            ELSE app_times[i]]
    ELSE Append(app_times, [name |-> app_name, duration |-> duration])

\* lines 54-61. The row holds a category, so the categorizer's answer, the
\* default of line 58, is not used; line 60 raises KeyError for a category
\* that is no key of category_times
RECURSIVE AccumulateLoop(_, _, _)
AccumulateLoop(rest, category_times, app_times) ==
    IF rest = <<>>
    THEN [category_times |-> category_times, app_times |-> app_times, error |-> "none"]
    ELSE LET session == Head(rest)
             duration == Get(session, "duration", 0)
             app_name == Get(session, "app_name", "unknown")
         IN  IF ~Truthy(duration)
             THEN AccumulateLoop(Tail(rest), category_times, app_times)
             ELSE IF session["category"] \notin DOMAIN category_times
             THEN [category_times |-> category_times, app_times |-> app_times,
                   error |-> "KeyError"]
             ELSE AccumulateLoop(Tail(rest),
                     [category_times EXCEPT ![session["category"]] = @ + duration],
                     AppTimesAdd(app_times, app_name, duration))

\* mutant: an entry goes before the entries of equal duration
RECURSIVE InsertByDuration_Unstable(_, _)
InsertByDuration_Unstable(entry, sorted) ==
    IF sorted = <<>> THEN <<entry>>
    ELSE IF Head(sorted)["duration"] > entry["duration"]
         THEN <<Head(sorted)>> \o InsertByDuration_Unstable(entry, Tail(sorted))
         ELSE <<entry>> \o sorted

\* lines 71-75, sorted(..., reverse=True): descending by duration, entries of
\* equal duration in their order in the list
RECURSIVE InsertByDuration(_, _)
InsertByDuration(entry, sorted) ==
    IF sorted = <<>> THEN <<entry>>
    ELSE IF Head(sorted)["duration"] >= entry["duration"]
         THEN <<Head(sorted)>> \o InsertByDuration(entry, Tail(sorted))
         ELSE <<entry>> \o sorted

RECURSIVE SortedByDuration(_)
SortedByDuration(entries) ==
    IF entries = <<>> THEN <<>>
    ELSE InsertByDuration(entries[Len(entries)],
                          SortedByDuration(SubSeq(entries, 1, Len(entries) - 1)))

\* lines 63-84: the report made of what the loop accumulated; report is the
\* returned dict, error the exception raised
DailyOf(acc, total_time, num_sessions, date) ==
    IF acc.error # "none" THEN [error |-> acc.error, report |-> <<>>]
    ELSE [error |-> "none",
          report |->
            [date |-> date,
             total_time |-> total_time,
             productivity_score |->
                 calculate_productivity_score(acc.category_times["productive"],
                     acc.category_times["neutral"],
                     acc.category_times["distracting"]),
             top_apps |-> SortedByDuration(acc.app_times),
             category_breakdown |-> acc.category_times,
             num_sessions |-> num_sessions]]

\* lines 47-84 on the sessions fetched
DailyFrom(fetched, date) ==
    DailyOf(AccumulateLoop(fetched,
                [productive |-> 0, neutral |-> 0, distracting |-> 0], <<>>),
            TotalTime(fetched), Len(fetched), date)

\* lines 27-84
generate_daily_report(rows, date) ==
    LET day_start == date - (date % 86400)
        day_end == day_start + 86400
    IN  DailyFrom(get_sessions_by_date(rows, day_start, day_end), date)

\* mutant: the week starts one day later
WeekDayTime_Late(week_start, i) == week_start + (i + 1) * 86400

\* line 95
WeekDayTime(week_start, i) == week_start + i * 86400

\* lines 94-104: the daily reports of the week, i = 0..6
WeekReports(rows, week_start) ==
    [k \in 1..WEEK |-> generate_daily_report(rows, WeekDayTime(week_start, k - 1))]

RECURSIVE WeeklyTotal(_, _)
WeeklyTotal(days, k) ==
    IF k = 0 THEN 0 ELSE WeeklyTotal(days, k - 1) + days[k]["total_time"]

\* lines 98-102: the entries of days
WeekDays(reports, week_start) ==
    [k \in 1..WEEK |->
        [date |-> WeekDayTime(week_start, k - 1),
         total_time |-> reports[k].report["total_time"],
         productivity_score |-> reports[k].report["productivity_score"]]]

\* lines 106-114. daily_average is the double weekly_total / 7, or the int 0
WeeklyResult(days, weekly_total, week_start, current_time) ==
    [days |-> days,
     weekly_total |-> weekly_total,
     daily_average |-> IF weekly_total > 0 THEN FloatDiv(weekly_total, 7) ELSE 0,
     start_date |-> week_start,
     end_date |-> current_time]

\* lines 91-114 on the daily reports of the week; a daily report that raises
\* ends the weekly report
WeeklyOf(reports, days, week_start, current_time) ==
    IF \E k \in 1..WEEK : reports[k].error # "none"
    THEN [error |-> "KeyError", report |-> <<>>]
    ELSE [error |-> "none",
          report |-> WeeklyResult(days, WeeklyTotal(days, WEEK), week_start,
                                  current_time)]

WeeklyFrom(reports, week_start, current_time) ==
    WeeklyOf(reports, WeekDays(reports, week_start), week_start, current_time)

\* lines 86-114
generate_weekly_report(rows, current_time) ==
    WeeklyFrom(WeekReports(rows, current_time - 7 * 86400),
               current_time - 7 * 86400, current_time)

\* the applications table (database.py lines 27-32): one category per name,
\* any text
CategoryOfApp ==
    [vscode |-> "productive", firefox |-> "neutral", youtube |-> "distracting",
     game |-> "fun"]

Row(app_name, start_time, duration) ==
    [id |-> start_time, app_name |-> app_name, category |-> CategoryOfApp[app_name],
     start_time |-> start_time,
     end_time |-> IF duration = None THEN None ELSE start_time + duration,
     duration |-> duration]

\* the clock of the reports: day 10 of the epoch, 500 seconds in
ReportNow == 10 * DAY + 500

\* start times before, at the ends of and inside the week the weekly report
\* covers, days 3 to 9
WeekStarts ==
    {3 * DAY - 1, 3 * DAY, 5 * DAY, 5 * DAY + 100, 10 * DAY, 10 * DAY + 100}

\* stores of sessions spread over the week, in any insertion order
WeekStores ==
    {rows \in SeqsUpTo({Row(a, s, d) : a \in {"vscode", "youtube"},
                                       s \in WeekStarts, d \in {None, 30}},
                       MaxStore) :
        \A i, j \in 1..Len(rows) : i # j => rows[i]["start_time"] # rows[j]["start_time"]}

\* stores of the sessions of one day, the k-th starting at second 100 * k
DayRows(k) ==
    {Row(a, 100 * k, d) : a \in {"vscode", "firefox"}, d \in {None, 0, 30, 60}}

RECURSIVE DayStoresOf(_)
DayStoresOf(n) ==
    IF n = 0 THEN {<<>>}
    ELSE {Append(rows, r) : rows \in DayStoresOf(n - 1), r \in DayRows(n)}

DayStores == UNION {DayStoresOf(n) : n \in 0..MaxTop}

\* stores with a session of an application whose category is none of the
\* three
OtherCategoryStores == {<<Row("game", s, d)>> : s \in {100, 5 * DAY}, d \in {None, 30}}

\* the days asked for: the default (now), a day of the week before, day 0
DateChoices == {ReportNow, 4 * DAY + 500, 0}

InitReports ==
    /\ store \in WeekStores \cup DayStores \cup OtherCategoryStores
    /\ now = ReportNow
    /\ custom_rules = <<>>
    /\ sessions = <<>>
    /\ gap_threshold = GapDefault
    /\ min_duration = MinDurationDefault
    /\ Idle

DailyReport ==
    \E date \in DateChoices :
        /\ \E out \in {generate_daily_report(store, date)} :
              result' = out.report /\ error' = out.error
        /\ op' = "daily_report"
        /\ arg' = date
        /\ UNCHANGED <<aggregatorVars, managerVars, otherVars, now>>

WeeklyReport ==
    /\ \E out \in {generate_weekly_report(store, now)} :
          result' = out.report /\ error' = out.error
    /\ op' = "weekly_report"
    /\ arg' = <<>>
    /\ UNCHANGED <<aggregatorVars, managerVars, otherVars, now>>

NextReports == DailyReport \/ WeeklyReport

SpecReports == InitReports /\ [][NextReports]_vars

\* the start of the epoch day of a timestamp
DayStart(ts) == (ts \div DAY) * DAY

\* C18: generate_daily_report(ts) counts exactly the stored sessions whose
\* start_time lies in [D, D + 86400), D the start of the epoch day of ts
C18_HalfOpenDay ==
    (op = "daily_report" /\ error = "none") =>
        result["num_sessions"] =
            Cardinality({i \in 1..Len(store) :
                            /\ store[i]["start_time"] >= DayStart(arg)
                            /\ store[i]["start_time"] < DayStart(arg) + DAY})

\* the sessions of the report's day, as the report fetched them
Fetched == get_sessions_by_date(store, DayStart(arg), DayStart(arg) + DAY)

\* the first session of an app among the fetched ones, of those at the
\* positions I
FirstOf(fetched, app_name, I) ==
    CHOOSE i \in I : /\ fetched[i]["app_name"] = app_name
                     /\ \A j \in I : fetched[j]["app_name"] = app_name => i <= j

\* top_apps has one entry per app of the sessions at positions I, with the
\* sum of the app's durations there, in non-increasing order of duration,
\* equal durations in the order of the apps' first session at positions I
\* when ties = I, at positions ties in general
TopAppsOf(fetched, I, ties) ==
    LET top == result["top_apps"]
        names == {fetched[i]["app_name"] : i \in I}
    IN  /\ {top[k]["name"] : k \in 1..Len(top)} = names
        /\ Len(top) = Cardinality(names)
        /\ \A k \in 1..Len(top) :
              top[k]["duration"] =
                  SumOver([i \in 1..Len(fetched) |->
                              IF i \in I /\ fetched[i]["app_name"] = top[k]["name"]
                              THEN fetched[i]["duration"] ELSE 0], Len(fetched))
        /\ \A k \in 1..(Len(top) - 1) :
              /\ top[k]["duration"] >= top[k + 1]["duration"]
              /\ top[k]["duration"] = top[k + 1]["duration"] =>
                    FirstOf(fetched, top[k]["name"], ties) < FirstOf(fetched, top[k + 1]["name"], ties)

\* C19 as stated: one entry per app with a recorded duration, apps of equal
\* duration in the order of their first session of the day
C19_TopAppsFirstSeen ==
    (op = "daily_report" /\ error = "none") =>
        TopAppsOf(Fetched, {i \in 1..Len(Fetched) : Truthy(Fetched[i]["duration"])},
                  1..Len(Fetched))

\* C19 amended: top_apps has one entry per app with a session of recorded
\* non-zero duration among the sessions of the report, with the sum of these
\* durations, in non-increasing order, apps of equal duration in the order
\* of their first session with a recorded non-zero duration
C19_TopApps ==
    (op = "daily_report" /\ error = "none") =>
        LET counted == {i \in 1..Len(Fetched) : Truthy(Fetched[i]["duration"])}
        IN  TopAppsOf(Fetched, counted, counted)

\* two apps tie at 60 seconds; the one listed second has the first session
\* of the day, a session without duration
C19_Witness ==
    /\ op = "daily_report" /\ error = "none"
    /\ Len(result["top_apps"]) = 2
    /\ result["top_apps"][1]["duration"] = 60
    /\ result["top_apps"][2]["duration"] = 60
    /\ Len(Fetched) = 3
    /\ Fetched[1]["duration"] = None
    /\ Fetched[1]["app_name"] = result["top_apps"][2]["name"]

\* C20: generate_weekly_report returns 7 day entries, for now - 7*86400 +
\* i*86400, i = 0..6, each with the total_time and productivity_score of the
\* daily report of that timestamp; weekly_total is their sum and
\* daily_average is weekly_total / 7, 0 when weekly_total is 0
C20_WeeklyReport ==
    (op = "weekly_report" /\ error = "none") =>
        /\ Len(result["days"]) = 7
        /\ \A k \in 1..7 :
              \E daily \in {generate_daily_report(store, now - 7 * DAY + (k - 1) * DAY)} :
                  LET day == result["days"][k]
                  IN  /\ day["date"] = now - 7 * DAY + (k - 1) * DAY
                      /\ daily.error = "none"
                      /\ day["total_time"] = daily.report["total_time"]
                      /\ day["productivity_score"] = daily.report["productivity_score"]
        /\ result["weekly_total"] =
              SumOver([k \in 1..7 |-> result["days"][k]["total_time"]], 7)
        /\ IF result["weekly_total"] = 0 THEN result["daily_average"] = 0
           ELSE result["daily_average"] = FloatDiv(result["weekly_total"], 7)

\* a week with sessions on two of its days
C20_Witness ==
    /\ op = "weekly_report" /\ error = "none"
    /\ result["weekly_total"] = 60
    /\ result["days"][1]["total_time"] = 30
    /\ result["days"][3]["total_time"] = 30
    /\ result["days"][1]["productivity_score"] = 100
    /\ result["days"][3]["productivity_score"] = 0

-----------------------------------------------------------------------------
\* SessionManager (src/core/session.py)

MaxSessions == 3
MaxClock == 4

ManagerApps == {"vscode", "firefox"}

\* Session.__init__: a session of app_name that started at start_time and
\* has not ended
Session(app_name, start_time) ==
    [app_name |-> app_name, start_time |-> start_time, end_time |-> None]

\* the values a reading of time.time() can give after a reading of t: the
\* clock does not go back
Clock(t) == {t, t + 1} \cap (0..MaxClock)

\* the manager as one value
Manager(current, list) == [current_session |-> current, sessions |-> list]

IsOpen_Always(session) == TRUE

\* end_current_session, the end_time test of its condition
IsOpen(session) == session.end_time = None

\* end_current_session with time.time() reading t
end_current_session(m, t) ==
    IF m.current_session # None /\ IsOpen(m.sessions[m.current_session])
    THEN Manager(m.current_session,
                 [m.sessions EXCEPT ![m.current_session].end_time = t])
    ELSE m

HasCurrent_Never(m) == FALSE

\* start_session, the condition under which it ends the current session
HasCurrent(m) == m.current_session # None

\* start_session with time.time() reading t1 in end_current_session and t2
\* for the new session
start_session(m, app_name, t1, t2) ==
    LET ended == IF HasCurrent(m) THEN end_current_session(m, t1) ELSE m
    IN  Manager(Len(ended.sessions) + 1,
                Append(ended.sessions, Session(app_name, t2)))

SameApp_Never(m, app_name) == FALSE

\* switch_application, the condition of its early return
SameApp(m, app_name) ==
    m.current_session # None /\ m.sessions[m.current_session].app_name = app_name

\* switch_application
switch_application(m, app_name, t1, t2) ==
    IF SameApp(m, app_name) THEN m ELSE start_session(m, app_name, t1, t2)

TheManager == Manager(current_session, manager_sessions)

\* the manager and the clock after a call that left m and read the clock up
\* to t
Returned(name, app_name, m, t) ==
    /\ current_session' = m.current_session
    /\ manager_sessions' = m.sessions
    /\ now' = t
    /\ op' = name
    /\ arg' = app_name
    /\ result' = <<>>
    /\ error' = "none"
    /\ UNCHANGED <<aggregatorVars, otherVars>>

InitSessions ==
    /\ sessions = <<>>
    /\ gap_threshold = GapDefault
    /\ min_duration = MinDurationDefault
    /\ now = 0
    /\ custom_rules = <<>>
    /\ store = <<>>
    /\ Idle

StartSession ==
    /\ Len(manager_sessions) < MaxSessions
    /\ \E app_name \in ManagerApps : \E t1 \in Clock(now) : \E t2 \in Clock(t1) :
          Returned("start_session", app_name,
                   start_session(TheManager, app_name, t1, t2), t2)

SwitchApplication ==
    \E app_name \in ManagerApps :
        IF SameApp(TheManager, app_name)
        THEN Returned("switch_application", app_name,
                      switch_application(TheManager, app_name, now, now), now)
        ELSE /\ Len(manager_sessions) < MaxSessions
             /\ \E t1 \in Clock(now) : \E t2 \in Clock(t1) :
                   Returned("switch_application", app_name,
                            switch_application(TheManager, app_name, t1, t2), t2)

EndCurrentSession ==
    \E t \in Clock(now) :
        \E m \in {end_current_session(TheManager, t)} :
            Returned("end_current_session", <<>>, m,
                     IF m = TheManager THEN now ELSE t)

NextSessions == StartSession \/ SwitchApplication \/ EndCurrentSession

SpecSessions == InitSessions /\ [][NextSessions]_vars

\* the positions of the recorded sessions that are open
OpenSessions == {i \in 1..Len(manager_sessions) : manager_sessions[i].end_time = None}

\* C24: after any sequence of start_session, switch_application and
\* end_current_session calls at most one recorded session is open; an open
\* session is current_session and the last element of sessions, and every
\* earlier element has its end_time set
C24_AtMostOneOpen ==
    /\ Cardinality(OpenSessions) <= 1
    /\ \A i \in OpenSessions :
          /\ current_session = i
          /\ i = Len(manager_sessions)
          /\ \A j \in 1..(i - 1) : manager_sessions[j].end_time # None

\* three sessions recorded, the last one open after two were closed by the
\* calls that followed them
C24_Witness ==
    /\ Len(manager_sessions) = 3
    /\ OpenSessions = {3}
    /\ current_session = 3
    /\ op = "switch_application"

\* the call that has just returned found an open current session: the
\* unprimed state is the one before the call
SwitchedFromOpen ==
    /\ op' = "switch_application"
    /\ current_session # None
    /\ manager_sessions[current_session].end_time = None

\* C25: switch_application(a) while the current session is open for another
\* application closes that session and appends one new open session for a,
\* which becomes current_session; while the current session is open for a
\* itself the call changes nothing
C25_Switch ==
    [][SwitchedFromOpen =>
          IF manager_sessions[current_session].app_name = arg'
          THEN UNCHANGED managerVars
          ELSE /\ Len(manager_sessions') = Len(manager_sessions) + 1
               /\ \A i \in 1..Len(manager_sessions) :
                     /\ manager_sessions'[i].app_name = manager_sessions[i].app_name
                     /\ manager_sessions'[i].start_time = manager_sessions[i].start_time
                     /\ manager_sessions'[i].end_time # None
                     /\ i # current_session =>
                           manager_sessions'[i].end_time = manager_sessions[i].end_time
               /\ current_session' = Len(manager_sessions')
               /\ manager_sessions'[current_session'].app_name = arg'
               /\ manager_sessions'[current_session'].end_time = None]_vars

\* a switch from vscode to firefox has closed the first session and opened
\* the second
C25_Witness ==
    /\ op = "switch_application" /\ arg = "firefox"
    /\ Len(manager_sessions) = 2
    /\ manager_sessions[1].app_name = "vscode"
    /\ manager_sessions[1].end_time # None
    /\ manager_sessions[2].app_name = "firefox"
    /\ manager_sessions[2].end_time = None
    /\ current_session = 2

\* a switch to the application of the open current session has returned
C25_WitnessSame ==
    /\ op = "switch_application" /\ arg = "vscode"
    /\ Len(manager_sessions) = 1
    /\ manager_sessions[1].app_name = "vscode"
    /\ manager_sessions[1].end_time = None
    /\ current_session = 1

\* C26: a closed session keeps its app_name, start_time and end_time under
\* every later call, no call removes or reorders recorded sessions, and with
\* a clock that does not go back every closed session has end_time >=
\* start_time
C26_ClosedIsFinal ==
    [][/\ Len(manager_sessions') >= Len(manager_sessions)
       /\ \A i \in 1..Len(manager_sessions) :
             /\ manager_sessions'[i].app_name = manager_sessions[i].app_name
             /\ manager_sessions'[i].start_time = manager_sessions[i].start_time
             /\ manager_sessions[i].end_time # None =>
                   manager_sessions'[i] = manager_sessions[i]
       /\ \A i \in 1..Len(manager_sessions') :
             manager_sessions'[i].end_time # None =>
                 manager_sessions'[i].end_time >= manager_sessions'[i].start_time]_vars

\* a session closed after a while is followed by two more sessions, the last
\* of them closed later by end_current_session
C26_Witness ==
    /\ op = "end_current_session"
    /\ Len(manager_sessions) = 3
    /\ manager_sessions[1].end_time > manager_sessions[1].start_time
    /\ manager_sessions[3].end_time > manager_sessions[1].end_time
    /\ current_session = 3

\* C30: immediately after switch_application(a) returns, current_session is
\* an open session for a, also when the most recent session for a was closed
\* by end_current_session before the call
C30_SwitchLeavesOpen ==
    op = "switch_application" =>
        /\ current_session # None
        /\ manager_sessions[current_session].app_name = arg
        /\ manager_sessions[current_session].end_time = None

\* C27: after any sequence of rule-file loads and set_category calls,
\* successful or failing, get_category returns productive, neutral or
\* distracting for every app name, the empty name included
C27_CategoryIsOneOfThree ==
    op = "get_category" => result \in {"productive", "neutral", "distracting"}

\* the durations of the entries of a report's top_apps
TopDurations(top_apps) ==
    SumOver([k \in 1..Len(top_apps) |-> top_apps[k]["duration"]], Len(top_apps))

\* C28: for every content of the session store generate_daily_report
\* completes, and in its report total_time is the sum of the three
\* category_breakdown values and the sum of the durations in top_apps, and
\* num_sessions is the number of sessions fetched for the day, open ones
\* included
C28_DailyReportAddsUp ==
    op = "daily_report" =>
        /\ error = "none"
        /\ result["total_time"] =
              result["category_breakdown"]["productive"]
              + result["category_breakdown"]["neutral"]
              + result["category_breakdown"]["distracting"]
        /\ result["total_time"] = TopDurations(result["top_apps"])
        /\ result["num_sessions"] = Len(Fetched)

\* the start of the epoch day that contains now
WeekEnd == now - (now % DAY)

\* the durations of the closed stored sessions that start in the seven epoch
\* days before the one that contains now
TrailingWeek ==
    SumOver([k \in 1..Len(store) |->
                IF /\ Truthy(store[k]["duration"])
                   /\ store[k]["start_time"] >= WeekEnd - 7 * DAY
                   /\ store[k]["start_time"] < WeekEnd
                THEN store[k]["duration"] ELSE 0], Len(store))

\* C29: weekly_total is the sum of the durations of the closed stored
\* sessions whose start_time lies in [D - 7*86400, D), D the start of the
\* epoch day that contains now, each of them counted once
C29_WeeklyTotal ==
    (op = "weekly_report" /\ error = "none") => result["weekly_total"] = TrailingWeek

-----------------------------------------------------------------------------
\* ReportGenerator.calculate_trends (src/core/reports.py)

\* zeros in front of the bits or after them, up to a length
RECURSIVE PadLeft(_, _)
PadLeft(bits, length) ==
    IF Len(bits) >= length THEN bits ELSE PadLeft(<<0>> \o bits, length)

RECURSIVE PadRight(_, _)
PadRight(bits, length) ==
    IF Len(bits) >= length THEN bits ELSE PadRight(Append(bits, 0), length)

\* the double 0.0
FloatZero == [m |-> PadRight(<<>>, Significand), e |-> 0]

\* sum(scores) / count of integer scores: the double nearest to the quotient
Mean(total, count) == IF total = 0 THEN FloatZero ELSE FloatDiv(total, count)

\* doubles below 2^Whole whose last bit is worth at least 2^-Frac, written
\* as Whole bits before the binary point and Frac bits after it
Whole == 8
Frac == 60

\* the bits of the fixed-point positions after those in bits, for the
\* significand m of a double with exponent e
RECURSIVE FixedBits(_, _, _)
FixedBits(m, e, bits) ==
    IF Len(bits) = Whole + Frac THEN bits
    ELSE IF e - Whole + Len(bits) + 2 \in 1..Significand
    THEN FixedBits(m, e, Append(bits, m[e - Whole + Len(bits) + 2]))
    ELSE FixedBits(m, e, Append(bits, 0))

ToFixed(x) == FixedBits(x.m, x.e, <<>>)

\* the integer n < 2^Whole in the same form
FixedOf(n) == PadRight(PadLeft(ToBits(n), Whole), Whole + Frac)

\* a + b, bit by bit from the last: sum holds the bits found so far
RECURSIVE AddBits(_, _, _, _)
AddBits(a, b, carry, sum) ==
    IF Len(sum) = Len(a) THEN sum
    ELSE IF a[Len(a) - Len(sum)] + b[Len(a) - Len(sum)] + carry >= 2
    THEN AddBits(a, b, 1,
                 <<a[Len(a) - Len(sum)] + b[Len(a) - Len(sum)] + carry - 2>> \o sum)
    ELSE AddBits(a, b, 0,
                 <<a[Len(a) - Len(sum)] + b[Len(a) - Len(sum)] + carry>> \o sum)

\* a - b for a >= b, bit by bit from the last
RECURSIVE SubBits(_, _, _, _)
SubBits(a, b, borrow, difference) ==
    IF Len(difference) = Len(a) THEN difference
    ELSE IF a[Len(a) - Len(difference)] - b[Len(a) - Len(difference)] - borrow < 0
    THEN SubBits(a, b, 1,
                 <<a[Len(a) - Len(difference)] - b[Len(a) - Len(difference)]
                   - borrow + 2>> \o difference)
    ELSE SubBits(a, b, 0,
                 <<a[Len(a) - Len(difference)] - b[Len(a) - Len(difference)]
                   - borrow>> \o difference)

\* the double nearest to the value of the bits, ties to even
FromFixed(bits) ==
    IF ~AnyBitSet(bits) THEN FloatZero
    ELSE LET first == CHOOSE i \in 1..Len(bits) :
                          bits[i] = 1 /\ \A j \in 1..(i - 1) : bits[j] = 0
             padded == PadRight(bits, Len(bits) + Significand)
             kept == SubSeq(padded, first, first + Significand - 1)
             next == padded[first + Significand]
             after == SubSeq(padded, first + Significand + 1, Len(padded))
         IN  RoundToNearestEven(kept, Whole - first,
                                next = 1 /\ AnyBitSet(after),
                                next = 1 /\ ~AnyBitSet(after))

\* x + n of a double x >= 0 and an integer n >= 0, as the addition of doubles
\* rounds it
FloatAdd(x, n) ==
    FromFixed(AddBits(ToFixed(x), FixedOf(n), 0, <<>>))

\* a < b for doubles a, b > 0: by the exponent, then by the significand
LessBits(a, b) ==
    \/ a.e < b.e
    \/ /\ a.e = b.e
       /\ \E i \in 1..Significand :
             a.m[i] < b.m[i] /\ \A j \in 1..(i - 1) : a.m[j] = b.m[j]

\* less < more for doubles less, more >= 0
FloatLess(less, more) ==
    \E a \in {less} : \E b \in {more} :
        IF b = FloatZero THEN FALSE
        ELSE IF a = FloatZero THEN TRUE
        ELSE LessBits(a, b)

\* x - n of a double x >= n and an integer n >= 0
FloatSub(x, n) ==
    FromFixed(SubBits(ToFixed(x), FixedOf(n), 0, <<>>))

\* line 202, second_half_avg > first_half_avg + 5
Improving(first_half_avg, second_half_avg) ==
    FloatLess(FloatAdd(first_half_avg, 5), second_half_avg)

\* line 204, second_half_avg < first_half_avg - 5: a mean of scores is not
\* negative, so it is not below a negative difference
Declining(first_half_avg, second_half_avg) ==
    IF FloatLess(first_half_avg, FloatAdd(FloatZero, 5)) THEN FALSE
    ELSE FloatLess(second_half_avg, FloatSub(first_half_avg, 5))

\* sum(scores)
SumScores(scores) == SumOver(scores, Len(scores))

\* scores.reverse()
RECURSIVE Reverse(_)
Reverse(scores) ==
    IF scores = <<>> THEN <<>> ELSE Append(Reverse(Tail(scores)), Head(scores))

\* lines 198-213 on the scores in chronological order
TrendOf(scores, first_half_avg, second_half_avg) ==
    [trend_direction |->
        IF Improving(first_half_avg, second_half_avg) THEN "improving"
        ELSE IF Declining(first_half_avg, second_half_avg) THEN "declining"
        ELSE "stable",
     average_score |-> Mean(SumScores(scores), Len(scores)),
     scores |-> scores]

\* lines 189-213 on the scores collected, newest first
TrendsFrom(scores) ==
    IF Len(scores) < 2
    THEN [trend_direction |-> "insufficient_data",
          average_score |-> IF scores # <<>> THEN scores[1] ELSE 0]
    ELSE LET chronological == Reverse(scores)
             half == Len(scores) \div 2
         IN  TrendOf(chronological,
                     Mean(SumScores(SubSeq(chronological, 1, half)), half),
                     Mean(SumScores(SubSeq(chronological, half + 1, Len(scores))),
                          Len(scores) - half))

\* lines 182-187: the scores of the days with activity, newest first; a
\* daily report that raises ends calculate_trends
RECURSIVE ScoresLoop(_, _, _, _, _)
ScoresStep(daily, rows, current_time, i, days, scores) ==
    IF daily.error # "none" THEN [error |-> daily.error, scores |-> scores]
    ELSE ScoresLoop(rows, current_time, i + 1, days,
                    IF daily.report["total_time"] > 0
                    THEN Append(scores, daily.report["productivity_score"])
                    ELSE scores)

ScoresLoop(rows, current_time, i, days, scores) ==
    IF i >= days THEN [error |-> "none", scores |-> scores]
    ELSE ScoresStep(generate_daily_report(rows, current_time - i * 86400),
                    rows, current_time, i, days, scores)

TrendsResult(collected) ==
    IF collected.error # "none" THEN [error |-> collected.error, report |-> <<>>]
    ELSE [error |-> "none", report |-> TrendsFrom(collected.scores)]

\* lines 169-213 with time.time() reading current_time
calculate_trends(rows, current_time, days) ==
    TrendsResult(ScoresLoop(rows, current_time, 0, days, <<>>))

MaxDays == 6
MaxGapDays == 3

\* the sessions of a day as <<app_name, duration>>: days that score 0, 5 and
\* 10, and days without a closed session
ScoreProfiles ==
    { <<<<"youtube", 30>>>>,
      <<<<"firefox", 3>>, <<"youtube", 27>>>>,
      <<<<"firefox", 6>>, <<"youtube", 24>>>> }
IdleProfiles == { <<>>, <<<<"vscode", None>>>> }

\* days that score 75, 50 and 25, the newest first
TrendScenario ==
    << <<<<"vscode", 45>>, <<"youtube", 15>>>>,
       <<<<"vscode", 30>>, <<"youtube", 30>>>>,
       <<<<"vscode", 15>>, <<"youtube", 45>>>> >>

\* the rows of the sessions of a profile on the day i days before the day of
\* ReportNow, the k-th starting at second 100 * k of the day
RECURSIVE DayOf(_, _, _)
DayOf(profile, i, rows) ==
    IF Len(rows) = Len(profile) THEN rows
    ELSE DayOf(profile, i,
               Append(rows, Row(profile[Len(rows) + 1][1],
                                ReportNow - (ReportNow % DAY) - i * DAY
                                + 100 * (Len(rows) + 1),
                                profile[Len(rows) + 1][2])))

\* the store of the days of profiles, profiles[1] today
RECURSIVE StoreOf(_, _, _)
StoreOf(profiles, i, rows) ==
    IF i > Len(profiles) THEN rows
    ELSE StoreOf(profiles, i + 1, rows \o DayOf(profiles[i], i - 1, <<>>))

\* stores with sessions on every one of MaxDays days, stores of up to
\* MaxGapDays days some of which have no closed session, the days of the
\* scenario, a store with an application of a category of its own
TrendStores ==
    {StoreOf(p, 1, <<>>) : p \in [1..MaxDays -> ScoreProfiles]}
    \cup UNION {{StoreOf(p, 1, <<>>) : p \in [1..n -> ScoreProfiles \cup IdleProfiles]} :
                   n \in 0..MaxGapDays}
    \cup {StoreOf(TrendScenario, 1, <<>>)}
    \cup {<<Row("game", ReportNow - 400, 30)>>}

\* the days argument
TrendDays == {0, 1, 2, MaxDays}

InitTrends ==
    /\ store \in TrendStores
    /\ now = ReportNow
    /\ custom_rules = <<>>
    /\ sessions = <<>>
    /\ gap_threshold = GapDefault
    /\ min_duration = MinDurationDefault
    /\ Idle

Trends ==
    \E days \in TrendDays :
        /\ \E out \in {calculate_trends(store, now, days)} :
              result' = out.report /\ error' = out.error
        /\ op' = "calculate_trends"
        /\ arg' = days
        /\ UNCHANGED <<aggregatorVars, managerVars, otherVars, now>>

NextTrends == Trends

SpecTrends == InitTrends /\ [][NextTrends]_vars

\* the scores of the days with activity among the days examined, oldest
\* first, by the daily reports of those days
RECURSIVE QualifyingScores(_, _)
QualifyingFrom(daily, i, scores) ==
    IF daily.error = "none" /\ daily.report["total_time"] > 0
    THEN QualifyingScores(i + 1, <<daily.report["productivity_score"]>> \o scores)
    ELSE QualifyingScores(i + 1, scores)

QualifyingScores(i, scores) ==
    IF i >= arg THEN scores
    ELSE QualifyingFrom(generate_daily_report(store, now - i * DAY), i, scores)

\* the direction the two means give: h1 scores that sum to s1, h2 that sum
\* to s2, compared as fractions
DirectionOf(s1, h1, s2, h2) ==
    IF s2 * h1 > s1 * h2 + 5 * h1 * h2 THEN "improving"
    ELSE IF s2 * h1 < s1 * h2 - 5 * h1 * h2 THEN "declining"
    ELSE "stable"

C21_Holds(scores) ==
    Len(scores) >= 2 =>
        /\ result["scores"] = scores
        /\ result["trend_direction"] =
              DirectionOf(SumScores(SubSeq(scores, 1, Len(scores) \div 2)),
                          Len(scores) \div 2,
                          SumScores(SubSeq(scores, Len(scores) \div 2 + 1, Len(scores))),
                          Len(scores) - Len(scores) \div 2)
        /\ result["average_score"] = Mean(SumScores(scores), Len(scores))
        /\ scores = <<25, 50, 75>> => result["trend_direction"] = "improving"

\* C21: with at least 2 examined days of total_time > 0, calculate_trends
\* lists their scores oldest first and compares the mean of the first
\* floor(n/2) with the mean of the rest: improving iff the second exceeds the
\* first by more than 5, declining iff it is lower by more than 5, stable
\* otherwise, a difference of exactly 5 included; average_score is the mean
\* of all of them; 25, 50, 75 give improving
C21_Trend ==
    (op = "calculate_trends" /\ error = "none") => C21_Holds(QualifyingScores(0, <<>>))

C22_Holds(scores) ==
    /\ error = "none"
    /\ result["trend_direction"] = "insufficient_data" <=> Len(scores) < 2
    /\ Len(scores) = 1 => result["average_score"] = scores[1]
    /\ Len(scores) = 0 => result["average_score"] = 0

\* C22: for any days >= 0 and any store content calculate_trends returns
\* insufficient_data, without raising, exactly when fewer than 2 of the
\* examined days have total_time > 0; average_score is then the score of the
\* single qualifying day, or 0 when there is none
C22_InsufficientData ==
    op = "calculate_trends" => C22_Holds(QualifyingScores(0, <<>>))

-----------------------------------------------------------------------------
\* ReportGenerator.get_peak_productivity_hours (src/core/reports.py)

\* line 236, datetime.fromtimestamp(start_time).hour in a time zone
\* utc_offset seconds east of UTC
HourOfDay(start_time, utc_offset) == ((start_time + utc_offset) \div HOUR) % 24

\* lines 240-242 on hourly_data, the hours in the order of their first
\* session
HourlyAdd(hourly_data, hour, duration, category) ==
    LET productive == IF category = "productive" THEN duration ELSE 0
    IN  IF \E i \in 1..Len(hourly_data) : hourly_data[i].hour = hour
        THEN [i \in 1..Len(hourly_data) |->
                IF hourly_data[i].hour = hour
                THEN [hour |-> hour,
                      productive |-> hourly_data[i].productive + productive,
                      total |-> hourly_data[i].total + duration]
                ELSE hourly_data[i]]
        ELSE Append(hourly_data,
                    [hour |-> hour, productive |-> productive, total |-> duration])

\* lines 231-242
RECURSIVE PeakLoop(_, _, _)
PeakLoop(fetched, utc_offset, hourly_data) ==
    IF fetched = <<>> THEN hourly_data
    ELSE IF ~Truthy(Head(fetched)["duration"])
    THEN PeakLoop(Tail(fetched), utc_offset, hourly_data)
    ELSE PeakLoop(Tail(fetched), utc_offset,
                    HourlyAdd(hourly_data,
                              HourOfDay(Head(fetched)["start_time"], utc_offset),
                              Head(fetched)["duration"],
                              Head(fetched)["category"]))

\* lines 245-253
RECURSIVE PeakEntries(_, _)
PeakEntries(hourly_data, peak_hours) ==
    IF hourly_data = <<>> THEN peak_hours
    ELSE IF Head(hourly_data).total > 0
    THEN PeakEntries(Tail(hourly_data),
                     Append(peak_hours,
                            [hour |-> Head(hourly_data).hour,
                             productivity_ratio |->
                                 Mean(Head(hourly_data).productive,
                                      Head(hourly_data).total),
                             total_time |-> Head(hourly_data).total]))
    ELSE PeakEntries(Tail(hourly_data), peak_hours)

StaysBefore_Ascending(first, entry) ==
    ~FloatLess(entry["productivity_ratio"], first["productivity_ratio"])

\* line 256, sort(..., reverse=True): an entry stays before a later one
\* unless its ratio is smaller
StaysBefore(first, entry) ==
    ~FloatLess(first["productivity_ratio"], entry["productivity_ratio"])

RECURSIVE InsertByRatio(_, _)
InsertByRatio(entry, sorted) ==
    IF sorted = <<>> THEN <<entry>>
    ELSE IF StaysBefore(Head(sorted), entry)
         THEN <<Head(sorted)>> \o InsertByRatio(entry, Tail(sorted))
         ELSE <<entry>> \o sorted

RECURSIVE SortedByRatio(_)
SortedByRatio(entries) ==
    IF entries = <<>> THEN <<>>
    ELSE InsertByRatio(entries[Len(entries)],
                       SortedByRatio(SubSeq(entries, 1, Len(entries) - 1)))

\* line 258, peak_hours[:5]
TopFive(peak_hours) ==
    SubSeq(peak_hours, 1, IF Len(peak_hours) < 5 THEN Len(peak_hours) ELSE 5)

\* lines 215-258 with time.time() reading current_time
get_peak_productivity_hours(rows, current_time, utc_offset) ==
    LET week_start == current_time - (7 * 86400)
    IN  TopFive(SortedByRatio(PeakEntries(
            PeakLoop(get_sessions_by_date(rows, week_start, current_time),
                       utc_offset, <<>>), <<>>)))

MaxHours == 6
MaxGapHours == 2

\* the sessions of an hour of day as <<app_name, duration, days>>, days the
\* number of days before the day of the first: an hour spent on vscode, on
\* youtube, on the two on different days
HourProfiles ==
    { <<<<"vscode", 30, 0>>>>,
      <<<<"youtube", 30, 0>>>>,
      <<<<"vscode", 30, 0>>, <<"youtube", 30, 3>>>> }

\* hours without a closed session in the week: nothing, an open session, a
\* session of the week before
OtherHourProfiles ==
    { <<>>, <<<<"vscode", None, 0>>>>, <<<<"vscode", 30, 6>>>> }

\* the rows of the sessions of a profile in hour h of the UTC day, on a day
\* of the week that depends on h
RECURSIVE HourRows(_, _, _)
HourRows(profile, h, rows) ==
    IF Len(rows) = Len(profile) THEN rows
    ELSE HourRows(profile, h,
                  Append(rows, Row(profile[Len(rows) + 1][1],
                                   (7 + (h % 3) - profile[Len(rows) + 1][3]) * DAY
                                   + h * HOUR + 2000,
                                   profile[Len(rows) + 1][2])))

\* the store of the hours of profiles, profiles[h] in hour h
RECURSIVE PeakStoreOf(_, _, _)
PeakStoreOf(profiles, h, rows) ==
    IF h > Len(profiles) THEN rows
    ELSE PeakStoreOf(profiles, h + 1, rows \o HourRows(profiles[h], h, <<>>))

PeakStores ==
    {PeakStoreOf(p, 1, <<>>) : p \in [1..MaxHours -> HourProfiles]}
    \cup UNION {{PeakStoreOf(p, 1, <<>>) :
                    p \in [1..n -> HourProfiles \cup OtherHourProfiles]} :
                   n \in 0..MaxGapHours}
    \cup {<<Row("game", ReportNow - 400, 30)>>}

\* time zones: UTC, UTC+5:30, UTC-5
UtcOffsets == {0, 19800, -18000}

InitPeak ==
    /\ store \in PeakStores
    /\ now = ReportNow
    /\ custom_rules = <<>>
    /\ sessions = <<>>
    /\ gap_threshold = GapDefault
    /\ min_duration = MinDurationDefault
    /\ Idle

PeakHours ==
    \E utc_offset \in UtcOffsets :
        /\ result' = get_peak_productivity_hours(store, now, utc_offset)
        /\ error' = "none"
        /\ op' = "peak_hours"
        /\ arg' = utc_offset
        /\ UNCHANGED <<aggregatorVars, managerVars, otherVars, now>>

NextPeak == PeakHours

SpecPeak == InitPeak /\ [][NextPeak]_vars

\* the time, all or productive, of the closed sessions of the trailing 7
\* days that started in hour h of the day in the time zone of the call
HourTime(h, categories_counted) ==
    SumOver([k \in 1..Len(store) |->
                IF /\ Truthy(store[k]["duration"])
                   /\ store[k]["start_time"] >= now - 7 * DAY
                   /\ store[k]["start_time"] <= now
                   /\ HourOfDay(store[k]["start_time"], arg) = h
                   /\ store[k]["category"] \in categories_counted
                THEN store[k]["duration"] ELSE 0], Len(store))

AllCategories == {"productive", "neutral", "distracting", "fun"}

\* C23: get_peak_productivity_hours returns at most 5 entries with pairwise
\* distinct hours in 0..23, each with total_time > 0 and productivity_ratio
\* = productive time / total time of the sessions that started in that hour
\* of day during the trailing 7 days, so between 0 and 1; the entries are in
\* non-increasing order of ratio, and no hour left out has a ratio strictly
\* greater than a returned one
C23_PeakHours ==
    op = "peak_hours" =>
        /\ error = "none"
        /\ Len(result) <= 5
        /\ \A i \in 1..Len(result) :
              /\ result[i]["hour"] \in 0..23
              /\ result[i]["total_time"] > 0
              /\ result[i]["total_time"] = HourTime(result[i]["hour"], AllCategories)
              /\ result[i]["productivity_ratio"] =
                    Mean(HourTime(result[i]["hour"], {"productive"}),
                         result[i]["total_time"])
              /\ HourTime(result[i]["hour"], {"productive"}) <= result[i]["total_time"]
              /\ \A j \in 1..Len(result) :
                    i < j =>
                        /\ result[i]["hour"] # result[j]["hour"]
                        /\ HourTime(result[i]["hour"], {"productive"}) * result[j]["total_time"]
                           >= HourTime(result[j]["hour"], {"productive"}) * result[i]["total_time"]
              /\ \A h \in 0..23 :
                    (/\ HourTime(h, AllCategories) > 0
                     /\ \A j \in 1..Len(result) : result[j]["hour"] # h) =>
                        HourTime(h, {"productive"}) * result[i]["total_time"]
                        <= HourTime(result[i]["hour"], {"productive"}) * HourTime(h, AllCategories)

\* six hours of the day have sessions and five are returned, of ratios 1,
\* 1/2 and 0, in a time zone where the hours are not those of UTC
C23_Witness ==
    /\ op = "peak_hours" /\ arg = 19800
    /\ Len(result) = 5
    /\ Cardinality({h \in 0..23 : HourTime(h, AllCategories) > 0}) = 6
    /\ result[1]["total_time"] = 30
    /\ HourTime(result[1]["hour"], {"productive"}) = 30
    /\ HourTime(result[3]["hour"], {"productive"}) = 30
    /\ result[3]["total_time"] = 60
    /\ HourTime(result[5]["hour"], {"productive"}) = 0

=============================================================================
